---- MODULE Spec2Model ----
(***************************************************************************)
(* Model of rustowl's analysis pipeline:                                   *)
(*   - the task-per-function-body scheduler of src/bin/core/mod.rs         *)
(*     (mir_borrowck, AnalyzerCallback::after_expansion,                   *)
(*     handle_analyzed_result),                                            *)
(*   - Workspace::merge / Crate::merge of src/models.rs,                   *)
(*   - the interval algebra of src/utils.rs,                               *)
(*   - index_to_line_char / line_char_to_index of src/utils.rs,            *)
(*   - get_cache_config of src/cache.rs.                                   *)
(***************************************************************************)
EXTENDS Integers, Sequences, FiniteSets, TLC

VARIABLES
    pc,           \* position of the compiler (main) thread
    nextBody,     \* next function body tcx.analysis hands to mir_borrowck
    cur,          \* body of the running mir_borrowck invocation (0: none)
    initRes,      \* result of MirAnalyzer::init for cur
    tasks,        \* TASKS: the JoinSet, as the set of spawned, not yet joined jobs
    tasksLocked,  \* TRUE while the main thread holds the TASKS mutex
    jobState,     \* per body: "none" | "running" | "ok" | "err"
    spawned,      \* per body: number of spawn_on calls
    hit,          \* bodies for which MirAnalyzer::init returned Cached
    cacheEnabled, \* cache::CACHE is Some
    cache,        \* keys held by the Result Cache
    inserts,      \* per body: number of insert_cache_with_file_path calls
    handled,      \* per body: number of handle_analyzed_result calls
    emitted,      \* the workspaces printed by handle_analyzed_result, in order
    log,          \* per body: the diagnostics logged about it
    flushed,      \* number of write_cache calls
    fileOf,       \* per body: its file name
    mrg,          \* state of the merge harness
    rng,          \* state of the interval-algebra harness
    txt,          \* state of the line/column conversion harness
    cfg,          \* state of the cache configuration harness
    loc,          \* state of the Loc arithmetic harness
    exl,          \* state of the exclude_ranges loop
    pol,          \* state of the Polonius fact translation harness
    rcache        \* state of the Result Cache harness

vars == <<pc, nextBody, cur, initRes, tasks, tasksLocked, jobState, spawned,
          hit, cacheEnabled, cache, inserts, handled, emitted, log, flushed,
          fileOf, mrg, rng, txt, cfg, loc, exl, pol, rcache>>

\* The variables of the harnesses added for the arithmetic, the exclusion
\* loop, the fact translation and the cache.
auxVars == <<loc, exl, pol, rcache>>

schedVars == <<pc, nextBody, cur, initRes, tasks, tasksLocked, jobState,
               spawned, hit, cacheEnabled, cache, inserts, handled, emitted,
               log, flushed, fileOf>>

----------------------------------------------------------------------------
(* Bounds *)

NBodies == 3
NFiles == 2
NMergeFiles == 1
MaxItems == 2
MaxFnId == 2
MaxLoc == 5
MaxLen == 3
MaxText == 4
MaxNumLen == 2
MaxExcl == 2
NRegions == 3
MaxPoints == 2
MaxRich == 2
MaxStmt == 2
NKeys == 3
MaxEntries == 2
MaxOps == 4

Bodies == 1..NBodies
FileNames == 1..NFiles
MergeFileNames == 1..NMergeFiles

\* The crate being compiled (tcx.crate_name(LOCAL_CRATE)).
LocalCrate == 1
CrateNames == {1, 2}

None == "None"

----------------------------------------------------------------------------
(* models.rs: File / Crate / Workspace and their merge *)

\* A Function, reduced to its fn_id and a tag standing for the rest of it.
Item(id, tag) == [fn_id |-> id, tag |-> tag]

RECURSIVE FnIds(_)
FnIds(items) ==
    IF items = <<>> THEN {}
    ELSE {Head(items).fn_id} \cup FnIds(Tail(items))

\* Variant of Retain that only looks the id up in the ids of self and never
\* records the ids it lets through.
RECURSIVE RetainAgainstSelf(_, _)
RetainAgainstSelf(items, seen) ==
    IF items = <<>> THEN <<>>
    ELSE IF Head(items).fn_id \in seen
         THEN RetainAgainstSelf(Tail(items), seen)
         ELSE <<Head(items)>> \o RetainAgainstSelf(Tail(items), seen)

\* mir.items.retain(|item| seen_ids.insert(item.fn_id))
RECURSIVE Retain(_, _)
Retain(items, seen) ==
    IF items = <<>> THEN <<>>
    ELSE IF Head(items).fn_id \in seen
         THEN Retain(Tail(items), seen)
         ELSE <<Head(items)>> \o Retain(Tail(items), seen \cup {Head(items).fn_id})

\* Variant of CrateMerge that inserts other's file over an existing one.
CrateMergeOverwrite(self, other) ==
    [f \in (DOMAIN self) \cup (DOMAIN other) |->
        IF f \in DOMAIN other THEN other[f] ELSE self[f]]

\* A Crate is a map from file names to the file's items.
CrateMerge(self, other) ==
    [f \in (DOMAIN self) \cup (DOMAIN other) |->
        IF f \in DOMAIN other
        THEN IF f \in DOMAIN self
             THEN self[f] \o Retain(other[f], FnIds(self[f]))
             ELSE other[f]
        ELSE self[f]]

\* A Workspace is a map from crate names to crates.
WorkspaceMerge(self, other) ==
    [c \in (DOMAIN self) \cup (DOMAIN other) |->
        IF c \in DOMAIN other
        THEN IF c \in DOMAIN self
             THEN CrateMerge(self[c], other[c])
             ELSE other[c]
        ELSE self[c]]

EmptyMap == <<>>

----------------------------------------------------------------------------
(* bin/core/mod.rs: the scheduler *)

FnId(b) == b

\* The workspace handle_analyzed_result prints for one analyzed function.
AnalyzedWorkspace(b) ==
    [c \in {LocalCrate} |-> [f \in {fileOf[b]} |-> <<Item(FnId(b), "analyzed")>>]]

\* State change of handle_analyzed_result(tcx, analyzed) for body b.
HandleAnalyzedResult(b) ==
    /\ inserts' = IF cacheEnabled THEN [inserts EXCEPT ![b] = @ + 1] ELSE inserts
    /\ cache' = IF cacheEnabled THEN cache \cup {b} ELSE cache
    /\ handled' = [handled EXCEPT ![b] = @ + 1]
    /\ emitted' = Append(emitted, AnalyzedWorkspace(b))

NoHandle == UNCHANGED <<inserts, cache, handled, emitted>>

\* Result Cache lookup done by MirAnalyzer::init: a hit needs the key to be
\* present; a present entry whose file changed since insertion is a miss.
CacheLookup(b) ==
    IF cacheEnabled /\ b \in cache THEN {"Cached", "Analyzer"} ELSE {"Analyzer"}

\* Finished jobs of the JoinSet.
Finished == {t \in tasks : jobState[t] \in {"ok", "err"}}

\* The ways the bodies are spread over files, the files numbered in the order
\* in which the bodies first name them.
FileAssignments ==
    {fo \in [Bodies -> FileNames] :
        \A b \in Bodies :
            \/ fo[b] = 1
            \/ \E a \in 1..(b - 1) : fo[a] = fo[b] - 1}

IdleMrg == [pc |-> "idle"]
IdleRng == [pc |-> "idle"]
IdleTxt == [pc |-> "idle"]
IdleCfg == [pc |-> "idle"]
IdleLoc == [pc |-> "idle"]
IdleExl == [pc |-> "idle"]
IdlePol == [pc |-> "idle"]
IdleRcache == [pc |-> "idle"]

\* The scheduler at rest, for the harnesses that do not run it.
SchedulerIdle ==
    /\ pc = "idle"
    /\ nextBody = 0
    /\ cur = 0
    /\ initRes = None
    /\ tasks = {}
    /\ tasksLocked = FALSE
    /\ jobState = <<>>
    /\ spawned = <<>>
    /\ hit = {}
    /\ cacheEnabled = FALSE
    /\ cache = {}
    /\ inserts = <<>>
    /\ handled = <<>>
    /\ emitted = <<>>
    /\ log = <<>>
    /\ flushed = 0
    /\ fileOf = <<>>

Init ==
    /\ pc = "analysis"
    /\ nextBody = 1
    /\ cur = 0
    /\ initRes = None
    /\ tasks = {}
    /\ tasksLocked = FALSE
    /\ jobState = [b \in Bodies |-> "none"]
    /\ spawned = [b \in Bodies |-> 0]
    /\ hit = {}
    /\ cacheEnabled \in BOOLEAN
    /\ cache \in (IF cacheEnabled THEN SUBSET Bodies ELSE {{}})
    /\ inserts = [b \in Bodies |-> 0]
    /\ handled = [b \in Bodies |-> 0]
    /\ emitted = <<>>
    /\ log = [b \in Bodies |-> {}]
    /\ flushed = 0
    /\ fileOf \in FileAssignments
    /\ mrg = IdleMrg
    /\ rng = IdleRng
    /\ txt = IdleTxt
    /\ cfg = IdleCfg
    /\ loc = IdleLoc
    /\ exl = IdleExl
    /\ pol = IdlePol
    /\ rcache = IdleRcache

\* mir_borrowck, line 42-44: log the start and run MirAnalyzer::init.
MirBorrowckInit ==
    /\ pc = "analysis"
    /\ nextBody <= NBodies
    /\ cur' = nextBody
    /\ nextBody' = nextBody + 1
    /\ \E r \in CacheLookup(nextBody) :
          /\ initRes' = r
          /\ hit' = IF r = "Cached" THEN hit \cup {nextBody} ELSE hit
    /\ log' = [log EXCEPT ![nextBody] = @ \cup {"start"}]
    /\ pc' = "mb_dispatch"
    /\ UNCHANGED <<tasks, tasksLocked, jobState, spawned, cacheEnabled, cache,
                   inserts, handled, emitted, flushed, fileOf, mrg, rng, txt, cfg, auxVars>>

\* Variant of MirBorrowckDispatch that spawns the job also for a cached result.
MirBorrowckDispatchAlwaysSpawn ==
    /\ pc = "mb_dispatch"
    /\ ~tasksLocked
    /\ tasksLocked' = TRUE
    /\ tasks' = tasks \cup {cur}
    /\ jobState' = [jobState EXCEPT ![cur] = "running"]
    /\ spawned' = [spawned EXCEPT ![cur] = @ + 1]
    /\ IF initRes = "Cached" THEN HandleAnalyzedResult(cur) ELSE NoHandle
    /\ pc' = "mb_poll"
    /\ UNCHANGED <<nextBody, cur, initRes, hit, cacheEnabled, log, flushed,
                   fileOf, mrg, rng, txt, cfg, auxVars>>

\* mir_borrowck, line 47-55: take TASKS, then handle the cached result or
\* spawn the extraction job.
MirBorrowckDispatch ==
    /\ pc = "mb_dispatch"
    /\ ~tasksLocked
    /\ tasksLocked' = TRUE
    /\ IF initRes = "Cached"
       THEN /\ HandleAnalyzedResult(cur)
            /\ UNCHANGED <<tasks, jobState, spawned>>
       ELSE /\ tasks' = tasks \cup {cur}
            /\ jobState' = [jobState EXCEPT ![cur] = "running"]
            /\ spawned' = [spawned EXCEPT ![cur] = @ + 1]
            /\ NoHandle
    /\ pc' = "mb_poll"
    /\ UNCHANGED <<nextBody, cur, initRes, hit, cacheEnabled, log, flushed,
                   fileOf, mrg, rng, txt, cfg, auxVars>>

\* mir_borrowck, line 58-61: one iteration of
\* `while let Some(Ok(result)) = tasks.try_join_next()`, which handles the
\* result and goes on.
MirBorrowckPollOk ==
    /\ pc = "mb_poll"
    /\ \E t \in Finished :
          /\ jobState[t] = "ok"
          /\ tasks' = tasks \ {t}
          /\ log' = [log EXCEPT ![t] = @ \cup {"joined"}]
          /\ HandleAnalyzedResult(t)
    /\ UNCHANGED <<pc, nextBody, cur, initRes, tasksLocked, jobState, spawned,
                   hit, cacheEnabled, flushed, fileOf, mrg, rng, txt, cfg, auxVars>>

\* Variant of MirBorrowckPollEnd that returns without dropping the guard.
MirBorrowckPollEndKeepLock ==
    /\ pc = "mb_poll"
    /\ \/ /\ Finished = {}
          /\ UNCHANGED tasks
       \/ \E t \in Finished :
             /\ jobState[t] = "err"
             /\ tasks' = tasks \ {t}
    /\ cur' = 0
    /\ initRes' = None
    /\ pc' = "analysis"
    /\ NoHandle
    /\ UNCHANGED <<nextBody, tasksLocked, jobState, spawned, hit, cacheEnabled,
                   log, flushed, fileOf, mrg, rng, txt, cfg, auxVars>>

\* mir_borrowck, line 58-62: try_join_next gives None or Some(Err(_)); the
\* loop ends (a failed job has been taken out of the set), the guard is
\* dropped and the invocation returns.
MirBorrowckPollEnd ==
    /\ pc = "mb_poll"
    /\ \/ /\ Finished = {}
          /\ UNCHANGED tasks
       \/ \E t \in Finished :
             /\ jobState[t] = "err"
             /\ tasks' = tasks \ {t}
    /\ tasksLocked' = FALSE
    /\ cur' = 0
    /\ initRes' = None
    /\ pc' = "analysis"
    /\ NoHandle
    /\ UNCHANGED <<nextBody, jobState, spawned, hit, cacheEnabled, log,
                   flushed, fileOf, mrg, rng, txt, cfg, auxVars>>

\* Variant of AnalysisDone that skips the drain loop.
AnalysisDoneSkipDrain ==
    /\ pc = "analysis"
    /\ nextBody > NBodies
    /\ pc' = "write_cache"
    /\ UNCHANGED <<nextBody, cur, initRes, tasks, tasksLocked, jobState,
                   spawned, hit, cacheEnabled, cache, inserts, handled,
                   emitted, log, flushed, fileOf, mrg, rng, txt, cfg, auxVars>>

\* after_expansion, line 88: tcx.analysis(()) has returned.
AnalysisDone ==
    /\ pc = "analysis"
    /\ nextBody > NBodies
    /\ pc' = "drain_try"
    /\ UNCHANGED <<nextBody, cur, initRes, tasks, tasksLocked, jobState,
                   spawned, hit, cacheEnabled, cache, inserts, handled,
                   emitted, log, flushed, fileOf, mrg, rng, txt, cfg, auxVars>>

\* after_expansion, line 98-104: try_join_next under a short-lived guard
\* gave Some(Ok(result)).
DrainTryOk ==
    /\ pc = "drain_try"
    /\ ~tasksLocked
    /\ \E t \in Finished :
          /\ jobState[t] = "ok"
          /\ tasks' = tasks \ {t}
          /\ log' = [log EXCEPT ![t] = @ \cup {"joined"}]
          /\ HandleAnalyzedResult(t)
    /\ UNCHANGED <<pc, nextBody, cur, initRes, tasksLocked, jobState, spawned,
                   hit, cacheEnabled, flushed, fileOf, mrg, rng, txt, cfg, auxVars>>

\* after_expansion, line 98-101: try_join_next gave None or Some(Err(_)).
DrainTryEnd ==
    /\ pc = "drain_try"
    /\ ~tasksLocked
    /\ \/ /\ Finished = {}
          /\ UNCHANGED tasks
       \/ \E t \in Finished :
             /\ jobState[t] = "err"
             /\ tasks' = tasks \ {t}
    /\ pc' = "drain_check"
    /\ NoHandle
    /\ UNCHANGED <<nextBody, cur, initRes, tasksLocked, jobState, spawned,
                   hit, cacheEnabled, log, flushed, fileOf, mrg, rng, txt, cfg, auxVars>>

\* Variant of DrainCheck that leaves the loop without looking at the set.
DrainCheckNoWait ==
    /\ pc = "drain_check"
    /\ ~tasksLocked
    /\ pc' = "write_cache"
    /\ UNCHANGED <<nextBody, cur, initRes, tasks, tasksLocked, jobState,
                   spawned, hit, cacheEnabled, cache, inserts, handled,
                   emitted, log, flushed, fileOf, mrg, rng, txt, cfg, auxVars>>

\* after_expansion, line 107-113: leave the loop when the set is empty.
DrainCheck ==
    /\ pc = "drain_check"
    /\ ~tasksLocked
    /\ pc' = IF tasks = {} THEN "write_cache" ELSE "drain_lock"
    /\ UNCHANGED <<nextBody, cur, initRes, tasks, tasksLocked, jobState,
                   spawned, hit, cacheEnabled, cache, inserts, handled,
                   emitted, log, flushed, fileOf, mrg, rng, txt, cfg, auxVars>>

\* after_expansion, line 117-118: take TASKS and enter block_on(join_next()).
DrainLock ==
    /\ pc = "drain_lock"
    /\ ~tasksLocked
    /\ tasksLocked' = TRUE
    /\ pc' = "drain_wait"
    /\ UNCHANGED <<nextBody, cur, initRes, tasks, jobState, spawned, hit,
                   cacheEnabled, cache, inserts, handled, emitted, log,
                   flushed, fileOf, mrg, rng, txt, cfg, auxVars>>

\* after_expansion, line 118-123: join_next() resolves once a job of the set
\* has finished (None at once for an empty set); the guard is dropped and an
\* Ok result is handled.
DrainJoin ==
    /\ pc = "drain_wait"
    /\ \/ /\ tasks = {}
          /\ UNCHANGED <<tasks, log>>
          /\ NoHandle
       \/ \E t \in Finished :
             /\ tasks' = tasks \ {t}
             /\ IF jobState[t] = "ok"
                THEN /\ log' = [log EXCEPT ![t] = @ \cup {"joined"}]
                     /\ HandleAnalyzedResult(t)
                ELSE /\ UNCHANGED log
                     /\ NoHandle
    /\ tasksLocked' = FALSE
    /\ pc' = "drain_try"
    /\ UNCHANGED <<nextBody, cur, initRes, jobState, spawned, hit,
                   cacheEnabled, flushed, fileOf, mrg, rng, txt, cfg, auxVars>>

\* after_expansion, line 126-137: write the cache out when there is one.
WriteCache ==
    /\ pc = "write_cache"
    /\ flushed' = IF cacheEnabled THEN flushed + 1 ELSE flushed
    /\ pc' = "done"
    /\ UNCHANGED <<nextBody, cur, initRes, tasks, tasksLocked, jobState,
                   spawned, hit, cacheEnabled, cache, inserts, handled,
                   emitted, log, fileOf, mrg, rng, txt, cfg, auxVars>>

\* A worker of RUNTIME finishes the job of body b: analyze() returns, or the
\* task panics and its join will give Err.
JobFinish(b) ==
    /\ jobState[b] = "running"
    /\ \E r \in {"ok", "err"} : jobState' = [jobState EXCEPT ![b] = r]
    /\ UNCHANGED <<pc, nextBody, cur, initRes, tasks, tasksLocked, spawned,
                   hit, cacheEnabled, cache, inserts, handled, emitted, log,
                   flushed, fileOf, mrg, rng, txt, cfg, auxVars>>

MainStep ==
    \/ MirBorrowckInit
    \/ MirBorrowckDispatch
    \/ MirBorrowckPollOk
    \/ MirBorrowckPollEnd
    \/ AnalysisDone
    \/ DrainTryOk
    \/ DrainTryEnd
    \/ DrainCheck
    \/ DrainLock
    \/ DrainJoin
    \/ WriteCache

Next ==
    \/ MainStep
    \/ \E b \in Bodies : JobFinish(b)

Spec == Init /\ [][Next]_vars

\* The compiler thread keeps running and every spawned job finishes.
FairSpec ==
    /\ Spec
    /\ WF_vars(MainStep)
    /\ \A b \in Bodies : WF_vars(JobFinish(b))

\* The output model: Workspace::merge of everything emitted so far.
RECURSIVE MergeAll(_, _)
MergeAll(acc, wss) ==
    IF wss = <<>> THEN acc
    ELSE MergeAll(WorkspaceMerge(acc, Head(wss)), Tail(wss))

OutputModel == MergeAll(EmptyMap, emitted)

----------------------------------------------------------------------------
(* utils.rs: interval algebra *)

\* Option<T>: None is the empty sequence, Some(x) is <<x>>.
Some(x) == <<x>>
NoneOpt == <<>>

Range(from, until) == [from |-> from, until |-> until]

\* Variant of RangeNew that rejects only until < from.
RangeNewAllowEmpty(from, until) ==
    IF until < from THEN NoneOpt ELSE Some(Range(from, until))

\* Range::new
RangeNew(from, until) ==
    IF until <= from THEN NoneOpt ELSE Some(Range(from, until))

\* Order of ranges.sort_by_key(|r| (r.from().0, r.until().0))
KeyLeq(a, b) ==
    \/ a.from < b.from
    \/ a.from = b.from /\ a.until <= b.until

RECURSIVE InsertByKey(_, _)
InsertByKey(r, sorted) ==
    IF sorted = <<>> THEN <<r>>
    ELSE IF KeyLeq(r, Head(sorted))
         THEN <<r>> \o sorted
         ELSE <<Head(sorted)>> \o InsertByKey(r, Tail(sorted))

RECURSIVE SortByKey(_)
SortByKey(ranges) ==
    IF ranges = <<>> THEN <<>>
    ELSE InsertByKey(Head(ranges), SortByKey(Tail(ranges)))

\* Variant of ScanMerge that merges overlapping ranges only, not adjacent ones.
RECURSIVE ScanMergeOverlapOnly(_, _, _)
ScanMergeOverlapOnly(rest, merged, current) ==
    IF rest = <<>> THEN [panic |-> FALSE, ranges |-> Append(merged, current)]
    ELSE LET r == Head(rest) IN
         IF r.from < current.until
         THEN IF r.until > current.until
              THEN ScanMergeOverlapOnly(Tail(rest), merged, Range(current.from, r.until))
              ELSE ScanMergeOverlapOnly(Tail(rest), merged, current)
         ELSE ScanMergeOverlapOnly(Tail(rest), Append(merged, current), r)

\* Variant of ScanMerge without the push of the last range after the loop.
RECURSIVE ScanMergeNoLastPush(_, _, _)
ScanMergeNoLastPush(rest, merged, current) ==
    IF rest = <<>> THEN [panic |-> FALSE, ranges |-> merged]
    ELSE LET r == Head(rest) IN
         IF r.from <= current.until
         THEN IF r.until > current.until
              THEN ScanMergeNoLastPush(Tail(rest), merged, Range(current.from, r.until))
              ELSE ScanMergeNoLastPush(Tail(rest), merged, current)
         ELSE ScanMergeNoLastPush(Tail(rest), Append(merged, current), r)

\* Variant of ScanMerge that takes the end of every merged range, also of one
\* that ends before the current range.
RECURSIVE ScanMergeAlwaysExtend(_, _, _)
ScanMergeAlwaysExtend(rest, merged, current) ==
    IF rest = <<>> THEN [panic |-> FALSE, ranges |-> Append(merged, current)]
    ELSE LET r == Head(rest) IN
         IF r.from <= current.until
         THEN ScanMergeAlwaysExtend(Tail(rest), merged, Range(current.from, r.until))
         ELSE ScanMergeAlwaysExtend(Tail(rest), Append(merged, current), r)

\* The scan loop of eliminated_ranges over the sorted ranges after the first,
\* with the result so far and the range being grown. The result tells
\* whether the unwrap panicked.
RECURSIVE ScanMerge(_, _, _)
ScanMerge(rest, merged, current) ==
    IF rest = <<>> THEN [panic |-> FALSE, ranges |-> Append(merged, current)]
    ELSE LET r == Head(rest) IN
         IF r.from <= current.until \/ r.from = current.until
         THEN IF r.until > current.until
              THEN LET n == RangeNew(current.from, r.until) IN
                   IF n = NoneOpt
                   THEN [panic |-> TRUE, ranges |-> merged]
                   ELSE ScanMerge(Tail(rest), merged, n[1])
              ELSE ScanMerge(Tail(rest), merged, current)
         ELSE ScanMerge(Tail(rest), Append(merged, current), r)

EliminatedScan(ranges) ==
    IF Len(ranges) <= 1 THEN [panic |-> FALSE, ranges |-> ranges]
    ELSE LET sorted == SortByKey(ranges) IN
         ScanMerge(Tail(sorted), <<>>, Head(sorted))

eliminated_ranges(ranges) == EliminatedScan(ranges).ranges

Min(a, b) == IF a <= b THEN a ELSE b
Max(a, b) == IF a >= b THEN a ELSE b

\* u32::MAX, the largest Loc, scaled to six bits.
LocTop == 63

\* i32::MIN and i32::MAX, scaled to six bits.
I32Min == -32
I32Max == 31

\* -rhs on an i32: the negation of i32::MIN overflows, which panics in a
\* build with overflow checks and wraps to i32::MIN in a build without.
NegI32(rhs, overflowChecks) ==
    IF rhs = I32Min
    THEN IF overflowChecks THEN [panic |-> TRUE, value |-> 0]
         ELSE [panic |-> FALSE, value |-> I32Min]
    ELSE [panic |-> FALSE, value |-> 0 - rhs]

\* x as u32, for an i32 x.
AsU32(x) == IF x < 0 THEN x + LocTop + 1 ELSE x

\* u32::saturating_add and u32::saturating_sub
SaturatingAdd(a, b) == Min(a + b, LocTop)
SaturatingSub(a, b) == Max(a - b, 0)

\* impl Add<i32> for Loc, in a build with or without overflow checks.
LocAddIn(l, rhs, overflowChecks) ==
    IF rhs >= 0 THEN [panic |-> FALSE, value |-> SaturatingAdd(l, AsU32(rhs))]
    ELSE LET abs_rhs == NegI32(rhs, overflowChecks) IN
         IF abs_rhs.panic THEN [panic |-> TRUE, value |-> 0]
         ELSE [panic |-> FALSE, value |-> SaturatingSub(l, AsU32(abs_rhs.value))]

\* impl Sub<i32> for Loc, in a build with or without overflow checks.
LocSubIn(l, rhs, overflowChecks) ==
    IF rhs >= 0 THEN [panic |-> FALSE, value |-> SaturatingSub(l, AsU32(rhs))]
    ELSE LET abs_rhs == NegI32(rhs, overflowChecks) IN
         IF abs_rhs.panic THEN [panic |-> TRUE, value |-> 0]
         ELSE [panic |-> FALSE, value |-> SaturatingAdd(l, AsU32(abs_rhs.value))]

\* l + k and l - k for the offsets of exclude_ranges (1, the same in every
\* build).
LocAdd(l, k) == LocAddIn(l, k, FALSE).value
LocSub(l, k) == LocSubIn(l, k, FALSE).value

\* Variant of is_super_range with both comparisons non-strict.
IsSuperRangeNonStrict(r1, r2) == r1.from <= r2.from /\ r2.until <= r1.until

\* is_super_range
is_super_range(r1, r2) ==
    \/ r1.from < r2.from /\ r2.until <= r1.until
    \/ r1.from <= r2.from /\ r2.until < r1.until

\* Variant of common_range that does not swap its arguments.
CommonRangeNoSwap(r1, r2) ==
    IF r1.until < r2.from THEN NoneOpt
    ELSE RangeNew(r2.from, Min(r1.until, r2.until))

\* common_range: the arguments are swapped when r2 starts first.
common_range(r1, r2) ==
    LET a == IF r2.from < r1.from THEN r2 ELSE r1
        b == IF r2.from < r1.from THEN r1 ELSE r2
    IN  IF a.until < b.from THEN NoneOpt
        ELSE RangeNew(b.from, Min(a.until, b.until))

\* Variant of merge_ranges that tests adjacency on one side only.
MergeRangesWithinOne(r1, r2) ==
    IF \/ common_range(r1, r2) # NoneOpt
       \/ r1.until = r2.from \/ r2.until = r1.from
       \/ r1.until + 1 = r2.from \/ r2.until + 1 = r1.from
    THEN RangeNew(Min(r1.from, r2.from), Max(r1.until, r2.until))
    ELSE NoneOpt

MergeRangesOneSided(r1, r2) ==
    IF common_range(r1, r2) # NoneOpt \/ r1.until = r2.from
    THEN RangeNew(Min(r1.from, r2.from), Max(r1.until, r2.until))
    ELSE NoneOpt

\* merge_ranges
merge_ranges(r1, r2) ==
    IF common_range(r1, r2) # NoneOpt \/ r1.until = r2.from \/ r2.until = r1.from
    THEN RangeNew(Min(r1.from, r2.from), Max(r1.until, r2.until))
    ELSE NoneOpt

\* Variant of CommonPairs whose inner loop starts at i instead of i + 1.
RECURSIVE CommonPairsFromSelf(_, _, _)
CommonPairsFromSelf(ranges, i, j) ==
    IF i > Len(ranges) THEN <<>>
    ELSE IF j > Len(ranges) THEN CommonPairsFromSelf(ranges, i + 1, i + 1)
    ELSE common_range(ranges[i], ranges[j]) \o CommonPairsFromSelf(ranges, i, j + 1)

\* The loops of common_ranges: the common range of every pair i < j, pushed
\* in the order of the loops.
RECURSIVE CommonPairs(_, _, _)
CommonPairs(ranges, i, j) ==
    IF i > Len(ranges) THEN <<>>
    ELSE IF j > Len(ranges) THEN CommonPairs(ranges, i + 1, i + 2)
    ELSE common_range(ranges[i], ranges[j]) \o CommonPairs(ranges, i, j + 1)

CommonScan(ranges) == EliminatedScan(CommonPairs(ranges, 1, 2))

common_ranges(ranges) == CommonScan(ranges).ranges

\* Variant of FirstCommon that looks at one exclusion only.
FirstCommonHeadOnly(r, excludes, j) ==
    IF j > Len(excludes) THEN 0
    ELSE IF common_range(r, excludes[j]) # NoneOpt THEN j
    ELSE 0

\* The inner loop of exclude_ranges: the first index j from which on
\* excludes[j] has a common range with r, 0 when there is none.
RECURSIVE FirstCommon(_, _, _)
FirstCommon(r, excludes, j) ==
    IF j > Len(excludes) THEN 0
    ELSE IF common_range(r, excludes[j]) # NoneOpt THEN j
    ELSE FirstCommon(r, excludes, j + 1)

\* from.remove(i)
RemoveAt(seq, i) == SubSeq(seq, 1, i - 1) \o SubSeq(seq, i + 1, Len(seq))

\* The fragments exclude_ranges pushes for a range r cut by common.
Fragments(r, common) ==
    RangeNew(r.from, LocSub(common.from, 1)) \o
    RangeNew(LocAdd(common.until, 1), r.until)

\* The outer loop of exclude_ranges from index i on (1-based).
RECURSIVE ExcludeLoop(_, _, _)
ExcludeLoop(from, excludes, i) ==
    IF i > Len(from) THEN from
    ELSE LET j == FirstCommon(from[i], excludes, 1) IN
         IF j = 0 THEN ExcludeLoop(from, excludes, i + 1)
         ELSE LET common == common_range(from[i], excludes[j])[1] IN
              ExcludeLoop(RemoveAt(from \o Fragments(from[i], common), i),
                          excludes, i)

ExcludeScan(from, excludes) == EliminatedScan(ExcludeLoop(from, excludes, 1))

exclude_ranges(from, excludes) == ExcludeScan(from, excludes).ranges

----------------------------------------------------------------------------
(* utils.rs: positions in a text. A text is a str, modelled as the sequence *)
(* of its UTF-8 bytes; the characters are "a", "LF", "CR" and the two-byte  *)
(* character "E", whose bytes are "C3" and "A9".                            *)

\* The bytes of a sequence of characters.
RECURSIVE Encode(_)
Encode(chars) ==
    IF chars = <<>> THEN <<>>
    ELSE (IF Head(chars) = "E" THEN <<"C3", "A9">> ELSE <<Head(chars)>>)
            \o Encode(Tail(chars))

\* str::chars: the characters of a sequence of bytes.
RECURSIVE Chars(_)
Chars(bytes) ==
    IF bytes = <<>> THEN <<>>
    ELSE IF Head(bytes) = "C3" THEN <<"E">> \o Chars(Tail(Tail(bytes)))
    ELSE <<Head(bytes)>> \o Chars(Tail(bytes))

\* memchr_iter(b'\n', ..): the next newline byte at or after index from
\* (1-based), 0 when there is none.
RECURSIVE NextNewline(_, _)
NextNewline(s, from) ==
    IF from > Len(s) THEN 0
    ELSE IF s[from] = "LF" THEN from
    ELSE NextNewline(s, from + 1)

\* Variant of IdxStep that counts a carriage return as a character.
IdxStepCountingCR(st, ch, target) ==
    IF st.done THEN st
    ELSE IF st.idx = target THEN [st EXCEPT !.done = TRUE]
    ELSE IF ch = "LF" THEN [st EXCEPT !.line = @ + 1, !.col = 0, !.idx = @ + 1]
    ELSE [st EXCEPT !.col = @ + 1, !.idx = @ + 1]

\* The body of the character loops of index_to_line_char; done records the
\* return inside the loop.
IdxStep(st, ch, target) ==
    IF st.done \/ ch = "CR" THEN st
    ELSE IF st.idx = target THEN [st EXCEPT !.done = TRUE]
    ELSE IF ch = "LF" THEN [st EXCEPT !.line = @ + 1, !.col = 0, !.idx = @ + 1]
    ELSE [st EXCEPT !.col = @ + 1, !.idx = @ + 1]

\* A character loop of index_to_line_char.
RECURSIVE IdxChars(_, _, _)
IdxChars(st, chars, target) ==
    IF chars = <<>> THEN st
    ELSE IdxChars(IdxStep(st, Head(chars), target), Tail(chars), target)

\* The loop of index_to_line_char over the newline boundaries.
RECURSIVE IdxSegments(_, _, _, _)
IdxSegments(st, s, segStart, target) ==
    LET nl == NextNewline(s, segStart) IN
    IF nl = 0 THEN [st |-> st, segStart |-> segStart]
    ELSE LET st2 == IdxChars(st, Chars(SubSeq(s, segStart, nl)), target) IN
         IF st2.done \/ st2.idx > target
         THEN [st |-> st2, segStart |-> nl + 1]
         ELSE IdxSegments(st2, s, nl + 1, target)

\* index_to_line_char: the pair (line, col).
index_to_line_char(s, idx) ==
    LET a == IdxSegments([line |-> 0, col |-> 0, idx |-> 0, done |-> FALSE],
                         s, 1, idx)
        b == IF ~a.st.done /\ a.st.idx <= idx
             THEN IdxChars(a.st, Chars(SubSeq(s, a.segStart, Len(s))), idx)
             ELSE a.st
    IN  <<b.line, b.col>>

\* Variant of CountLogical that counts the carriage returns too.
CountLogicalWithCR(chars) == Len(chars)

\* The counting loops of line_char_to_index: the characters that are not
\* carriage returns.
CountLogical(chars) == Len(SelectSeq(chars, LAMBDA ch : ch # "CR"))

\* The loop of line_char_to_index over the newline boundaries.
RECURSIVE LineSegments(_, _, _, _)
LineSegments(consumed, s, segStart, line) ==
    LET nl == NextNewline(s, segStart) IN
    IF nl = 0 \/ line = 0
    THEN [consumed |-> consumed, segStart |-> segStart, line |-> line]
    ELSE LineSegments(consumed + CountLogical(Chars(SubSeq(s, segStart, nl))),
                      s, nl + 1, line - 1)

\* The column loop of line_char_to_index.
RECURSIVE ColChars(_, _, _, _)
ColChars(consumed, colCount, chars, char) ==
    IF chars = <<>> THEN consumed
    ELSE IF Head(chars) = "CR" THEN ColChars(consumed, colCount, Tail(chars), char)
    ELSE IF colCount = char \/ Head(chars) = "LF" THEN consumed
    ELSE ColChars(consumed + 1, colCount + 1, Tail(chars), char)

\* line_char_to_index
line_char_to_index(s, line, char) ==
    LET a == LineSegments(0, s, 1, line)
        rest == Chars(SubSeq(s, a.segStart, Len(s)))
    IN  IF a.line > 0 THEN a.consumed + CountLogical(rest)
        ELSE ColChars(a.consumed, 0, rest, char)

----------------------------------------------------------------------------
(* cache.rs: the cache configuration. A string is the sequence of its       *)
(* characters; an environment variable is None when env::var fails.         *)

\* usize::MAX, scaled to the integers of the model.
UsizeMax == 2147483647

\* 1024 * 1024
MiB == 1048576

\* impl Default for CacheConfig
DefaultConfig ==
    [max_entries |-> 1000,
     max_memory_bytes |-> 100 * MiB,
     use_lru_eviction |-> TRUE,
     validate_file_mtime |-> TRUE,
     enable_compression |-> FALSE]

Digits == {"0", "1", "2", "3", "4", "5", "6", "7", "8", "9"}

DigitValue(ch) ==
    CASE ch = "0" -> 0 [] ch = "1" -> 1 [] ch = "2" -> 2 [] ch = "3" -> 3
      [] ch = "4" -> 4 [] ch = "5" -> 5 [] ch = "6" -> 6 [] ch = "7" -> 7
      [] ch = "8" -> 8 [] ch = "9" -> 9

\* The digit loop of str::parse::<usize>: Err on a character that is no
\* digit and on overflow.
RECURSIVE ParseDigits(_, _)
ParseDigits(str, acc) ==
    IF str = <<>> THEN Some(acc)
    ELSE IF Head(str) \notin Digits THEN NoneOpt
    ELSE LET d == DigitValue(Head(str)) IN
         IF acc > (UsizeMax - d) \div 10 THEN NoneOpt
         ELSE ParseDigits(Tail(str), acc * 10 + d)

WhiteSpace == {" ", "TAB"}

\* str::trim
RECURSIVE TrimStart(_)
TrimStart(str) ==
    IF str # <<>> /\ Head(str) \in WhiteSpace THEN TrimStart(Tail(str)) ELSE str

RECURSIVE TrimEnd(_)
TrimEnd(str) ==
    IF str # <<>> /\ str[Len(str)] \in WhiteSpace
    THEN TrimEnd(SubSeq(str, 1, Len(str) - 1))
    ELSE str

Trim(str) == TrimEnd(TrimStart(str))

\* Variant of ParseUsize that trims the string first.
ParseUsizeTrimmed(str) ==
    LET t == Trim(str) IN
    IF t = <<>> THEN NoneOpt
    ELSE IF Head(t) = "+"
    THEN (IF Len(t) = 1 THEN NoneOpt ELSE ParseDigits(Tail(t), 0))
    ELSE ParseDigits(t, 0)

\* str::parse::<usize>: Some(value) for Ok(value), None for Err. The empty
\* string and a lone sign are errors; one leading "+" is accepted.
ParseUsize(str) ==
    IF str = <<>> THEN NoneOpt
    ELSE IF Head(str) = "+"
    THEN (IF Len(str) = 1 THEN NoneOpt ELSE ParseDigits(Tail(str), 0))
    ELSE ParseDigits(str, 0)

\* usize::saturating_mul
SaturatingMul(a, b) == IF a > UsizeMax \div b THEN UsizeMax ELSE a * b

\* char::to_ascii_lowercase on the letters of the model.
LowerChar(ch) ==
    CASE ch = "A" -> "a" [] ch = "E" -> "e" [] ch = "F" -> "f" [] ch = "I" -> "i"
      [] ch = "L" -> "l" [] ch = "O" -> "o" [] ch = "R" -> "r" [] ch = "S" -> "s"
      [] ch = "U" -> "u" [] OTHER -> ch

\* str::to_ascii_lowercase
ToAsciiLowercase(str) == [i \in 1..Len(str) |-> LowerChar(str[i])]

\* The four steps of get_cache_config, each on the configuration so far and
\* the result of env::var.
ConfigureMaxEntries(config, var) ==
    IF var # NoneOpt /\ ParseUsize(var[1]) # NoneOpt
    THEN [config EXCEPT !.max_entries = ParseUsize(var[1])[1]]
    ELSE config

ConfigureMaxMemory(config, var) ==
    IF var # NoneOpt /\ ParseUsize(var[1]) # NoneOpt
    THEN [config EXCEPT !.max_memory_bytes = SaturatingMul(ParseUsize(var[1])[1], MiB)]
    ELSE config

ConfigureEviction(config, var) ==
    IF var = NoneOpt THEN config
    ELSE LET policy == ToAsciiLowercase(Trim(var[1])) IN
         IF policy = <<"l", "r", "u">> THEN [config EXCEPT !.use_lru_eviction = TRUE]
         ELSE IF policy = <<"f", "i", "f", "o">>
         THEN [config EXCEPT !.use_lru_eviction = FALSE]
         ELSE config

ConfigureValidate(config, var) ==
    IF var = NoneOpt THEN config
    ELSE LET v == ToAsciiLowercase(Trim(var[1])) IN
         [config EXCEPT !.validate_file_mtime =
              ~(v = <<"f", "a", "l", "s", "e">> \/ v = <<"0">>)]

\* get_cache_config on the environment env.
get_cache_config(env) ==
    ConfigureValidate(
        ConfigureEviction(
            ConfigureMaxMemory(
                ConfigureMaxEntries(DefaultConfig, env.RUSTOWL_CACHE_MAX_ENTRIES),
                env.RUSTOWL_CACHE_MAX_MEMORY_MB),
            env.RUSTOWL_CACHE_EVICTION),
        env.RUSTOWL_CACHE_VALIDATE_FILES)

----------------------------------------------------------------------------
(* Harness for Crate::merge and Workspace::merge: the two crates are drawn  *)
(* from bounded sets and merged.                                            *)

ItemSeqs(tag) ==
    UNION {[1..n -> {Item(i, tag) : i \in 1..MaxFnId}] : n \in 0..MaxItems}

Crates(tag) == UNION {[D -> ItemSeqs(tag)] : D \in SUBSET MergeFileNames}

InitMerge ==
    /\ \E s \in Crates("self"), o \in Crates("other") :
          mrg = [pc |-> "input", self |-> s, other |-> o, out |-> EmptyMap]
    /\ rng = IdleRng
    /\ txt = IdleTxt
    /\ cfg = IdleCfg
    /\ loc = IdleLoc
    /\ exl = IdleExl
    /\ pol = IdlePol
    /\ rcache = IdleRcache
    /\ pc = "idle"
    /\ nextBody = 0
    /\ cur = 0
    /\ initRes = None
    /\ tasks = {}
    /\ tasksLocked = FALSE
    /\ jobState = <<>>
    /\ spawned = <<>>
    /\ hit = {}
    /\ cacheEnabled = FALSE
    /\ cache = {}
    /\ inserts = <<>>
    /\ handled = <<>>
    /\ emitted = <<>>
    /\ log = <<>>
    /\ flushed = 0
    /\ fileOf = <<>>

\* self.merge(other) on the two crates.
DoCrateMerge ==
    /\ mrg.pc = "input"
    /\ mrg' = [mrg EXCEPT !.pc = "crate_merged",
                          !.out = CrateMerge(mrg.self, mrg.other)]
    /\ UNCHANGED <<schedVars, rng, txt, cfg, auxVars>>

\* Workspace::merge of a workspace holding self as the local crate with a
\* workspace holding other under some crate name.
DoWorkspaceMerge ==
    /\ mrg.pc = "input"
    /\ \E n \in CrateNames :
          mrg' = [mrg EXCEPT !.pc = "workspace_merged",
                             !.out = WorkspaceMerge([c \in {LocalCrate} |-> mrg.self],
                                                    [c \in {n} |-> mrg.other])]
    /\ UNCHANGED <<schedVars, rng, txt, cfg, auxVars>>

NextMerge == DoCrateMerge \/ DoWorkspaceMerge

SpecMerge == InitMerge /\ [][NextMerge]_vars

----------------------------------------------------------------------------
(* get_must_live: from the facts of the dataflow engine to the locations    *)
(* every local must live in. A map is a function to sets, a key without    *)
(* entry having the empty set (the code creates an entry only to insert).   *)

Regions == 1..NRegions

Points == 1..MaxPoints

\* A location per region: the location at which that region can be live.
Locations == Regions

\* The one loan of the harness and the local that may own it.
TheBorrow == 1
TheLocal == 1

\* region_locations: region -> the locations where it is live on entry.
RegionLocations(origin_live_on_entry) ==
    [region \in Regions |-> {l \in Locations : region \in origin_live_on_entry[l]}]

\* borrow_local: borrow index -> local, from borrow_map.local_map().
BorrowLocal(local_map) ==
    {<<borrow, local>> : local \in DOMAIN local_map, borrow \in {TheBorrow}} \cap
    {bl \in {TheBorrow} \X DOMAIN local_map : bl[1] \in local_map[bl[2]]}

\* subsets: sup -> the union, over all points, of the regions recorded as its
\* subsets at that point.
Subsets(subset) ==
    [sup \in Regions |->
        UNION {subset[p][sup] : p \in {q \in DOMAIN subset : sup \in DOMAIN subset[q]}}]

\* region_must_locations: sup -> the locations of the regions in subsets[sup].
RegionMustLocations(subsets, region_locations) ==
    [sup \in Regions |-> UNION {region_locations[sub] : sub \in subsets[sup]}]

\* local_must_locations: local -> the locations of the regions that contain
\* one of its loans at some location.
LocalMustLocations(origin_contains_loan_at, region_must_locations, borrow_local) ==
    [local \in {TheLocal} |->
        UNION {region_must_locations[f.region] :
                 f \in {g \in origin_contains_loan_at :
                          <<g.borrow, local>> \in borrow_local}}]

\* get_must_live, up to the conversion of the locations to ranges.
get_must_live(facts) ==
    LocalMustLocations(
        facts.origin_contains_loan_at,
        RegionMustLocations(Subsets(facts.subset),
                            RegionLocations(facts.origin_live_on_entry)),
        BorrowLocal(facts.local_map))

----------------------------------------------------------------------------
(* get_range: from the start and mid points at which a local is live to its *)
(* ranges. A basic block is a record of its statements' ranges and its      *)
(* terminator's range, if it has one; block and statement indices count    *)
(* from 0 as in the code.                                                   *)

BasicBlock(statements, terminator) ==
    [statements |-> statements, terminator |-> terminator]

\* Variant of statement_location_to_range that gives nothing for an index
\* beyond the statements.
StatementLocationNoTerminator(basic_blocks, block, statement_index) ==
    IF block >= Len(basic_blocks) THEN NoneOpt
    ELSE LET bb == basic_blocks[block + 1] IN
         IF statement_index < Len(bb.statements)
         THEN Some(bb.statements[statement_index + 1])
         ELSE NoneOpt

\* get_range::statement_location_to_range
statement_location_to_range(basic_blocks, block, statement_index) ==
    IF block >= Len(basic_blocks) THEN NoneOpt
    ELSE LET bb == basic_blocks[block + 1] IN
         IF statement_index < Len(bb.statements)
         THEN Some(bb.statements[statement_index + 1])
         ELSE bb.terminator

\* The order of sort_locs: by block, then by statement index.
LocLeq(a, b) ==
    \/ a.block < b.block
    \/ a.block = b.block /\ a.statement_index <= b.statement_index

RECURSIVE InsertLoc(_, _)
InsertLoc(l, sorted) ==
    IF sorted = <<>> THEN <<l>>
    ELSE IF LocLeq(l, Head(sorted))
         THEN <<l>> \o sorted
         ELSE <<Head(sorted)>> \o InsertLoc(l, Tail(sorted))

\* shared::sort_locs
RECURSIVE sort_locs(_)
sort_locs(locs) ==
    IF locs = <<>> THEN <<>>
    ELSE InsertLoc(Head(locs), sort_locs(Tail(locs)))

\* The (block, statement index) of the rich locations of one kind, in the
\* order in which live_on_entry gives them.
RECURSIVE LocsOfKind(_, _)
LocsOfKind(rich, kind) ==
    IF rich = <<>> THEN <<>>
    ELSE LET l == Head(rich)
             rest == LocsOfKind(Tail(rich), kind)
         IN  IF l.kind = kind
             THEN <<[block |-> l.block, statement_index |-> l.statement_index]>> \o rest
             ELSE rest

\* Variant of PairRanges that pairs the i-th start with the mid of the n
\* first that is i-th from the end.
RECURSIVE PairRangesReversed(_, _, _, _, _)
PairRangesReversed(basic_blocks, starts, mids, i, n) ==
    IF i > n THEN <<>>
    ELSE LET s == statement_location_to_range(basic_blocks, starts[i].block,
                                              starts[i].statement_index)
             m == statement_location_to_range(basic_blocks, mids[n + 1 - i].block,
                                              mids[n + 1 - i].statement_index)
             rest == PairRangesReversed(basic_blocks, starts, mids, i + 1, n)
         IN  IF s # NoneOpt /\ m # NoneOpt
             THEN RangeNew(s[1].from, m[1].until) \o rest
             ELSE rest

\* The loop `for i in 0..n` of get_range (i counts from 1 here): the ranges
\* pushed from pair i on.
RECURSIVE PairRanges(_, _, _, _, _)
PairRanges(basic_blocks, starts, mids, i, n) ==
    IF i > n THEN <<>>
    ELSE LET s == statement_location_to_range(basic_blocks, starts[i].block,
                                              starts[i].statement_index)
             m == statement_location_to_range(basic_blocks, mids[i].block,
                                              mids[i].statement_index)
             rest == PairRanges(basic_blocks, starts, mids, i + 1, n)
         IN  IF s # NoneOpt /\ m # NoneOpt
             THEN RangeNew(s[1].from, m[1].until) \o rest
             ELSE rest

\* get_range for one local: the rich locations at which it is live, in the
\* order of live_on_entry, give its ranges; panic tells whether the unwrap of
\* eliminated_ranges panicked.
get_range(rich, basic_blocks) ==
    LET starts == sort_locs(LocsOfKind(rich, "Start"))
        mids == sort_locs(LocsOfKind(rich, "Mid"))
        n == Min(Len(starts), Len(mids))
        ranges == PairRanges(basic_blocks, starts, mids, 1, n)
    IN  [starts |-> starts, mids |-> mids, n |-> n,
         truncated |-> n # Len(starts) \/ n # Len(mids),
         ranges |-> eliminated_ranges(ranges),
         panic |-> EliminatedScan(ranges).panic]

----------------------------------------------------------------------------
(* The Result Cache, after its contract: lookup and insert over entries     *)
(* keyed by the hashes, with eviction by entry count. An entry records when *)
(* it was inserted and when it was last accessed, in operations since the   *)
(* cache was built. The memory ceiling, the modification times and the      *)
(* file of the cache are left out.                                          *)

CacheKeys == 1..NKeys

\* Variant of Victim that evicts the earliest inserted entry under both
\* policies.
VictimEarliestInserted(entries, use_lru_eviction) ==
    CHOOSE k \in DOMAIN entries :
        \A o \in DOMAIN entries : entries[k].inserted <= entries[o].inserted

\* The entry evicted next: the least recently accessed under LRU, the
\* earliest inserted under FIFO.
Victim(entries, use_lru_eviction) ==
    CHOOSE k \in DOMAIN entries :
        \A o \in DOMAIN entries :
            IF use_lru_eviction
            THEN entries[k].accessed <= entries[o].accessed
            ELSE entries[k].inserted <= entries[o].inserted

\* Eviction: entries are removed until the count is within max_entries; the
\* keys removed are returned in the order of their removal.
RECURSIVE Evict(_, _, _)
Evict(entries, config, evicted) ==
    IF Cardinality(DOMAIN entries) <= config.max_entries
    THEN [entries |-> entries, evicted |-> evicted]
    ELSE LET v == Victim(entries, config.use_lru_eviction) IN
         Evict([k \in DOMAIN entries \ {v} |-> entries[k]], config, Append(evicted, v))

\* insert: the entry is stored, or replaces the entry of its key.
StoreEntry(entries, key, now) ==
    [k \in DOMAIN entries \cup {key} |->
        IF k = key THEN [inserted |-> now, accessed |-> now] ELSE entries[k]]

\* lookup of a key that is present: the access is recorded.
TouchEntry(entries, key, now) ==
    [entries EXCEPT ![key] = [inserted |-> entries[key].inserted, accessed |-> now]]

----------------------------------------------------------------------------
(* Harness for the interval algebra: the input list is drawn from a bounded *)
(* set (and the lists of the documented scenarios) and normalized twice.    *)

Ranges == {r \in [from : 0..MaxLoc, until : 0..MaxLoc] : r.until > r.from}

RangeLists == UNION {[1..n -> Ranges] : n \in 0..MaxLen}

\* The input of test_eliminated_ranges.
ScenarioRanges == <<Range(0, 10), Range(5, 15), Range(12, 20), Range(25, 30)>>

\* The input of test_exclude_ranges: the range cut, then the exclusion.
ExcludeScenario == <<Range(0, 20), Range(5, 15)>>

\* The input of exclude_ranges_multiple_sources_and_excludes.
ExcludeMultiScenario == <<Range(1, 5), Range(10, 20), Range(3, 12), Range(15, 17)>>

\* The input of common_ranges_pairwise_collection_and_elimination.
CommonScenario == <<Range(0, 10), Range(5, 15), Range(12, 20), Range(21, 25)>>

\* Ranges that end at the largest Loc, where Loc + 1 saturates.
TopRanges == <<Range(LocTop - 5, LocTop), Range(LocTop - 3, LocTop)>>

\* The input of merge_ranges_adjacent_merges.
GapOfOneScenario == <<Range(1, 3), Range(4, 8)>>

\* The input of eliminated_ranges_merges_chain_until_fixed_point.
ChainScenario == <<Range(4, 5), Range(1, 3), Range(10, 12)>>

ScenarioLists ==
    {ScenarioRanges, ExcludeScenario, ExcludeMultiScenario, CommonScenario, TopRanges,
     GapOfOneScenario, ChainScenario}

InitRanges ==
    /\ rng \in {[pc |-> "input", xs |-> xs, out1 |-> <<>>, out2 |-> <<>>,
                 panic |-> FALSE] :
                   xs \in RangeLists \cup ScenarioLists}
    /\ mrg = IdleMrg
    /\ txt = IdleTxt
    /\ cfg = IdleCfg
    /\ loc = IdleLoc
    /\ exl = IdleExl
    /\ pol = IdlePol
    /\ rcache = IdleRcache
    /\ pc = "idle"
    /\ nextBody = 0
    /\ cur = 0
    /\ initRes = None
    /\ tasks = {}
    /\ tasksLocked = FALSE
    /\ jobState = <<>>
    /\ spawned = <<>>
    /\ hit = {}
    /\ cacheEnabled = FALSE
    /\ cache = {}
    /\ inserts = <<>>
    /\ handled = <<>>
    /\ emitted = <<>>
    /\ log = <<>>
    /\ flushed = 0
    /\ fileOf = <<>>

\* out1 = eliminated_ranges(xs)
DoEliminate ==
    /\ rng.pc = "input"
    /\ rng' = [rng EXCEPT !.pc = "once", !.out1 = eliminated_ranges(rng.xs),
                          !.panic = EliminatedScan(rng.xs).panic]
    /\ UNCHANGED <<schedVars, mrg, txt, cfg, auxVars>>

\* out2 = eliminated_ranges(out1)
DoEliminateAgain ==
    /\ rng.pc = "once"
    /\ rng' = [rng EXCEPT !.pc = "twice", !.out2 = eliminated_ranges(rng.out1),
                          !.panic = EliminatedScan(rng.out1).panic]
    /\ UNCHANGED <<schedVars, mrg, txt, cfg, auxVars>>

\* The functions of two ranges, applied to the first two ranges of the list
\* in both orders.
DoPair ==
    /\ rng.pc = "input"
    /\ Len(rng.xs) = 2
    /\ LET r1 == rng.xs[1]
           r2 == rng.xs[2]
       IN  rng' = [pc |-> "pair", xs |-> rng.xs, r1 |-> r1, r2 |-> r2,
                   common |-> common_range(r1, r2),
                   commonRev |-> common_range(r2, r1),
                   merged |-> merge_ranges(r1, r2),
                   mergedRev |-> merge_ranges(r2, r1),
                   super |-> is_super_range(r1, r2),
                   superRev |-> is_super_range(r2, r1)]
    /\ UNCHANGED <<schedVars, mrg, txt, cfg, auxVars>>

\* out = common_ranges(xs)
DoCommonRanges ==
    /\ rng.pc = "input"
    /\ rng' = [pc |-> "common", xs |-> rng.xs,
               out |-> common_ranges(rng.xs),
               panic |-> CommonScan(rng.xs).panic]
    /\ UNCHANGED <<schedVars, mrg, txt, cfg, auxVars>>

\* out = exclude_ranges(from, excludes), the list being split in the ranges
\* cut and the exclusions.
DoExclude ==
    /\ rng.pc = "input"
    /\ \E k \in 0..Len(rng.xs) :
          LET from == SubSeq(rng.xs, 1, k)
              excludes == SubSeq(rng.xs, k + 1, Len(rng.xs))
          IN  rng' = [pc |-> "excluded", xs |-> rng.xs,
                      from |-> from, excludes |-> excludes,
                      out |-> exclude_ranges(from, excludes),
                      panic |-> ExcludeScan(from, excludes).panic]
    /\ UNCHANGED <<schedVars, mrg, txt, cfg, auxVars>>

\* Range::new on two locations.
DoRangeNew ==
    /\ rng.pc = "input"
    /\ rng.xs = <<>>
    /\ \E a, b \in 0..MaxLoc :
          rng' = [pc |-> "new", xs |-> rng.xs, from |-> a, until |-> b,
                  out |-> RangeNew(a, b)]
    /\ UNCHANGED <<schedVars, mrg, txt, cfg, auxVars>>

NextRanges ==
    \/ DoEliminate
    \/ DoEliminateAgain
    \/ DoPair
    \/ DoCommonRanges
    \/ DoExclude
    \/ DoRangeNew

SpecRanges == InitRanges /\ [][NextRanges]_vars

----------------------------------------------------------------------------
(* Harness for the positions in a text: the text is drawn from a bounded    *)
(* set and converted in both directions, with and without its carriage      *)
(* returns.                                                                 *)

TextChars == {"a", "E", "LF", "CR"}

Texts == UNION {[1..n -> TextChars] : n \in 0..MaxText}

\* The text without its carriage returns.
StripCR(s) == SelectSeq(s, LAMBDA b : b # "CR")

InitText ==
    /\ \E t \in Texts : txt = [pc |-> "input", s |-> Encode(t)]
    /\ mrg = IdleMrg
    /\ rng = IdleRng
    /\ cfg = IdleCfg
    /\ loc = IdleLoc
    /\ exl = IdleExl
    /\ pol = IdlePol
    /\ rcache = IdleRcache
    /\ pc = "idle"
    /\ nextBody = 0
    /\ cur = 0
    /\ initRes = None
    /\ tasks = {}
    /\ tasksLocked = FALSE
    /\ jobState = <<>>
    /\ spawned = <<>>
    /\ hit = {}
    /\ cacheEnabled = FALSE
    /\ cache = {}
    /\ inserts = <<>>
    /\ handled = <<>>
    /\ emitted = <<>>
    /\ log = <<>>
    /\ flushed = 0
    /\ fileOf = <<>>

\* index_to_line_char on the text and on the text without carriage returns.
DoIndexToLineChar ==
    /\ txt.pc = "input"
    /\ \E i \in 0..(MaxText + 1) :
          txt' = [pc |-> "pos", s |-> txt.s, idx |-> i,
                  lc |-> index_to_line_char(txt.s, i),
                  lcNoCR |-> index_to_line_char(StripCR(txt.s), i)]
    /\ UNCHANGED <<schedVars, mrg, rng, cfg, auxVars>>

\* line_char_to_index on the position index_to_line_char returned.
DoBack ==
    /\ txt.pc = "pos"
    /\ txt' = [pc |-> "back", s |-> txt.s, idx |-> txt.idx, lc |-> txt.lc,
               back |-> line_char_to_index(txt.s, txt.lc[1], txt.lc[2])]
    /\ UNCHANGED <<schedVars, mrg, rng, cfg, auxVars>>

\* line_char_to_index on the text and on the text without carriage returns.
DoLineCharToIndex ==
    /\ txt.pc = "input"
    /\ \E l, c \in 0..MaxText :
          txt' = [pc |-> "index", s |-> txt.s, line |-> l, char |-> c,
                  out |-> line_char_to_index(txt.s, l, c),
                  outNoCR |-> line_char_to_index(StripCR(txt.s), l, c)]
    /\ UNCHANGED <<schedVars, mrg, rng, cfg, auxVars>>

NextText == DoIndexToLineChar \/ DoBack \/ DoLineCharToIndex

SpecText == InitText /\ [][NextText]_vars

----------------------------------------------------------------------------
(* Harness for the cache configuration: the four environment variables are  *)
(* drawn from bounded sets of strings and get_cache_config reads them.      *)

NumChars == {"7", " ", "+", "x"}

\* The values of a numeric variable: unset, the short strings over NumChars
\* and the strings of the tests (" 200 ", "  777 ", "5", a number whose
\* product with 1024 * 1024 saturates, a number too large for usize).
NumVars ==
    {NoneOpt}
    \cup {Some(str) : str \in UNION {[1..n -> NumChars] : n \in 0..MaxNumLen}}
    \cup {Some(<<" ", "2", "0", "0", " ">>), Some(<<" ", " ", "7", "7", "7", " ">>),
          Some(<<"5">>), Some(<<"0", "7">>), Some(<<"2", "0", "4", "8">>),
          Some(<<"9", "9", "9", "9", "9", "9", "9", "9", "9", "9", "9">>)}

PolicyWords ==
    {<<"l", "r", "u">>, <<"L", "R", "U">>, <<"L", "r", "u">>,
     <<"f", "i", "f", "o">>, <<"F", "I", "F", "O">>,
     <<"l", "f", "u">>, <<"l", " ", "r", "u">>, <<>>}

\* The values of RUSTOWL_CACHE_EVICTION: unset or a word, padded or not.
PolicyVars ==
    {NoneOpt}
    \cup {Some(a \o w \o b) : a \in {<<>>, <<" ">>}, w \in PolicyWords,
                              b \in {<<>>, <<"TAB">>}}

ValidateVars == {NoneOpt, Some(<<"0">>), Some(<<" ", "F", "A", "L", "S", "E">>), Some(<<"1">>)}

NoEnv ==
    [RUSTOWL_CACHE_MAX_ENTRIES |-> NoneOpt,
     RUSTOWL_CACHE_MAX_MEMORY_MB |-> NoneOpt,
     RUSTOWL_CACHE_EVICTION |-> NoneOpt,
     RUSTOWL_CACHE_VALIDATE_FILES |-> NoneOpt]

InitConfig ==
    /\ \E e \in NumVars, m \in NumVars, p \in PolicyVars, v \in ValidateVars :
          cfg = [pc |-> "env",
                 env |-> [RUSTOWL_CACHE_MAX_ENTRIES |-> e,
                          RUSTOWL_CACHE_MAX_MEMORY_MB |-> m,
                          RUSTOWL_CACHE_EVICTION |-> p,
                          RUSTOWL_CACHE_VALIDATE_FILES |-> v]]
    /\ mrg = IdleMrg
    /\ rng = IdleRng
    /\ txt = IdleTxt
    /\ loc = IdleLoc
    /\ exl = IdleExl
    /\ pol = IdlePol
    /\ rcache = IdleRcache
    /\ pc = "idle"
    /\ nextBody = 0
    /\ cur = 0
    /\ initRes = None
    /\ tasks = {}
    /\ tasksLocked = FALSE
    /\ jobState = <<>>
    /\ spawned = <<>>
    /\ hit = {}
    /\ cacheEnabled = FALSE
    /\ cache = {}
    /\ inserts = <<>>
    /\ handled = <<>>
    /\ emitted = <<>>
    /\ log = <<>>
    /\ flushed = 0
    /\ fileOf = <<>>

\* get_cache_config under the environment, and under each of its variables
\* alone.
DoGetCacheConfig ==
    /\ cfg.pc = "env"
    /\ cfg' = [pc |-> "config", env |-> cfg.env,
               out |-> get_cache_config(cfg.env),
               alone |-> [n \in DOMAIN NoEnv |->
                            get_cache_config([NoEnv EXCEPT ![n] = cfg.env[n]])]]
    /\ UNCHANGED <<schedVars, mrg, rng, txt, auxVars>>

NextConfig == DoGetCacheConfig

SpecConfig == InitConfig /\ [][NextConfig]_vars

----------------------------------------------------------------------------
(* Harness for the Loc arithmetic: a location, an offset and the build      *)
(* (with or without overflow checks) are drawn, then added or subtracted.   *)

InitLoc ==
    /\ \E l \in 0..LocTop, rhs \in I32Min..I32Max, oc \in BOOLEAN :
          loc = [pc |-> "input", l |-> l, rhs |-> rhs, overflowChecks |-> oc]
    /\ mrg = IdleMrg
    /\ rng = IdleRng
    /\ txt = IdleTxt
    /\ cfg = IdleCfg
    /\ exl = IdleExl
    /\ pol = IdlePol
    /\ rcache = IdleRcache
    /\ pc = "idle"
    /\ nextBody = 0
    /\ cur = 0
    /\ initRes = None
    /\ tasks = {}
    /\ tasksLocked = FALSE
    /\ jobState = <<>>
    /\ spawned = <<>>
    /\ hit = {}
    /\ cacheEnabled = FALSE
    /\ cache = {}
    /\ inserts = <<>>
    /\ handled = <<>>
    /\ emitted = <<>>
    /\ log = <<>>
    /\ flushed = 0
    /\ fileOf = <<>>

\* l + rhs
DoLocAdd ==
    /\ loc.pc = "input"
    /\ loc' = [pc |-> "added", l |-> loc.l, rhs |-> loc.rhs,
               overflowChecks |-> loc.overflowChecks,
               out |-> LocAddIn(loc.l, loc.rhs, loc.overflowChecks)]
    /\ UNCHANGED <<schedVars, mrg, rng, txt, cfg, exl, pol, rcache>>

\* l - rhs
DoLocSub ==
    /\ loc.pc = "input"
    /\ loc' = [pc |-> "subtracted", l |-> loc.l, rhs |-> loc.rhs,
               overflowChecks |-> loc.overflowChecks,
               out |-> LocSubIn(loc.l, loc.rhs, loc.overflowChecks)]
    /\ UNCHANGED <<schedVars, mrg, rng, txt, cfg, exl, pol, rcache>>

NextLoc == DoLocAdd \/ DoLocSub

SpecLoc == InitLoc /\ [][NextLoc]_vars

----------------------------------------------------------------------------
(* Harness for the Result Cache: a configuration is drawn, then keys are    *)
(* looked up and inserted in any order, up to MaxOps operations; the        *)
(* operations are logged.                                                   *)

InitCache ==
    /\ \E max_entries \in 1..MaxEntries, use_lru_eviction \in BOOLEAN :
          rcache = [pc |-> "ready",
                    config |-> [max_entries |-> max_entries,
                                use_lru_eviction |-> use_lru_eviction],
                    entries |-> <<>>,
                    log |-> <<>>,
                    stored |-> {},
                    evicted |-> <<>>,
                    hits |-> 0, misses |-> 0, evictions |-> 0]
    /\ mrg = IdleMrg
    /\ rng = IdleRng
    /\ txt = IdleTxt
    /\ cfg = IdleCfg
    /\ loc = IdleLoc
    /\ exl = IdleExl
    /\ pol = IdlePol
    /\ SchedulerIdle

\* lookup(key) on a key that is present
CacheLookupHit ==
    /\ Len(rcache.log) < MaxOps
    /\ \E key \in DOMAIN rcache.entries :
          rcache' = [rcache EXCEPT
                        !.pc = "looked_up",
                        !.entries = TouchEntry(rcache.entries, key, Len(rcache.log) + 1),
                        !.log = Append(rcache.log, [op |-> "lookup", key |-> key]),
                        !.hits = rcache.hits + 1]
    /\ UNCHANGED <<schedVars, mrg, rng, txt, cfg, loc, exl, pol>>

\* lookup(key) on a key that is absent
CacheLookupMiss ==
    /\ Len(rcache.log) < MaxOps
    /\ \E key \in CacheKeys \ DOMAIN rcache.entries :
          rcache' = [rcache EXCEPT
                        !.pc = "looked_up",
                        !.log = Append(rcache.log, [op |-> "lookup", key |-> key]),
                        !.misses = rcache.misses + 1]
    /\ UNCHANGED <<schedVars, mrg, rng, txt, cfg, loc, exl, pol>>

\* insert(key): the entry is stored or replaced, then the cache is evicted
\* down to max_entries.
CacheInsert ==
    /\ Len(rcache.log) < MaxOps
    /\ \E key \in CacheKeys :
          LET now == Len(rcache.log) + 1
              stored == StoreEntry(rcache.entries, key, now)
              e == Evict(stored, rcache.config, <<>>)
          IN  rcache' = [rcache EXCEPT
                            !.pc = "inserted",
                            !.entries = e.entries,
                            !.log = Append(rcache.log, [op |-> "insert", key |-> key]),
                            !.stored = DOMAIN stored,
                            !.evicted = e.evicted,
                            !.evictions = rcache.evictions + Len(e.evicted)]
    /\ UNCHANGED <<schedVars, mrg, rng, txt, cfg, loc, exl, pol>>

NextCache == CacheLookupHit \/ CacheLookupMiss \/ CacheInsert

SpecCache == InitCache /\ [][NextCache]_vars

----------------------------------------------------------------------------
(* Harness for get_range: a function body is drawn from the bodies of the   *)
(* tests and variants of them, the rich locations at which one local is     *)
(* live from a bounded set.                                                 *)

\* The body of get_range_uses_terminator_when_statement_index_at_end.
TerminatorBody ==
    <<BasicBlock(<<Range(0, 3), Range(3, 6)>>, Some(Range(6, 9)))>>

\* The body of get_range_truncates_when_counts_mismatch.
TruncateBody ==
    <<BasicBlock(<<Range(0, 5), Range(5, 15), Range(15, 25)>>, Some(Range(25, 30)))>>

\* A body whose block has no terminator.
NoTerminatorBody ==
    <<BasicBlock(<<Range(0, 3), Range(3, 6)>>, NoneOpt)>>

\* A body of two blocks.
TwoBlockBody ==
    <<BasicBlock(<<Range(0, 3), Range(3, 6)>>, Some(Range(6, 9))),
      BasicBlock(<<Range(9, 12)>>, Some(Range(12, 15)))>>

TestBodies == {TerminatorBody, TruncateBody, NoTerminatorBody, TwoBlockBody}

\* Rich locations of a kind: in block 0, and at the head of block 1, which
\* only the body of two blocks has.
RichLocations(kind) ==
    {[kind |-> kind, block |-> 0, statement_index |-> i] : i \in 0..MaxStmt}
    \cup {[kind |-> kind, block |-> 1, statement_index |-> 0]}

\* The rich locations at which the local is live: up to MaxRich starts and
\* up to MaxRich mids. get_range keeps the starts and the mids apart, so
\* that only the order within each kind matters: the starts come first here.
RichLists ==
    {ss \o ms : ss \in UNION {[1..n -> RichLocations("Start")] : n \in 0..MaxRich},
                ms \in UNION {[1..n -> RichLocations("Mid")] : n \in 0..MaxRich}}

InitGetRange ==
    /\ \E rich \in RichLists, basic_blocks \in TestBodies :
          pol = [pc |-> "live", rich |-> rich, basic_blocks |-> basic_blocks]
    /\ mrg = IdleMrg
    /\ rng = IdleRng
    /\ txt = IdleTxt
    /\ cfg = IdleCfg
    /\ loc = IdleLoc
    /\ exl = IdleExl
    /\ rcache = IdleRcache
    /\ SchedulerIdle

\* out = get_range(live_on_entry, location_table, basic_blocks) for the local
DoGetRange ==
    /\ pol.pc = "live"
    /\ pol' = [pc |-> "ranges", rich |-> pol.rich, basic_blocks |-> pol.basic_blocks,
               out |-> get_range(pol.rich, pol.basic_blocks)]
    /\ UNCHANGED <<schedVars, mrg, rng, txt, cfg, loc, exl, rcache>>

NextGetRange == DoGetRange

SpecGetRange == InitGetRange /\ [][NextGetRange]_vars

----------------------------------------------------------------------------
(* Harness for get_must_live: the facts are drawn from bounded sets: the    *)
(* regions live at their location, at most one subset pair per point, one   *)
(* loan contained in one region, owned by the local or by none.             *)

\* The subset relation of one point: nothing, or one region with one subset.
PointSubsets ==
    {<<>>} \cup {[r \in {sup} |-> {sub}] : sup \in Regions, sub \in Regions}

InitMustLive ==
    /\ \E live \in SUBSET Regions, subset \in [Points -> PointSubsets],
          region \in Regions, owned \in BOOLEAN :
          pol = [pc |-> "facts",
                 facts |-> [origin_live_on_entry |->
                                [l \in Locations |-> IF l \in live THEN {l} ELSE {}],
                            subset |-> subset,
                            origin_contains_loan_at |->
                                {[location |-> 1, region |-> region, borrow |-> TheBorrow]},
                            local_map |->
                                IF owned THEN [l \in {TheLocal} |-> {TheBorrow}]
                                ELSE [l \in {TheLocal} |-> {}]]]
    /\ mrg = IdleMrg
    /\ rng = IdleRng
    /\ txt = IdleTxt
    /\ cfg = IdleCfg
    /\ loc = IdleLoc
    /\ exl = IdleExl
    /\ rcache = IdleRcache
    /\ SchedulerIdle

\* out = get_must_live(facts)
DoGetMustLive ==
    /\ pol.pc = "facts"
    /\ pol' = [pc |-> "must_live", facts |-> pol.facts, out |-> get_must_live(pol.facts)]
    /\ UNCHANGED <<schedVars, mrg, rng, txt, cfg, loc, exl, rcache>>

NextMustLive == DoGetMustLive

SpecMustLive == InitMustLive /\ [][NextMustLive]_vars

----------------------------------------------------------------------------
(* Harness for the loop of exclude_ranges, one action per iteration of the  *)
(* outer loop: the list walked, the exclusions and the index i are the      *)
(* state, with the number of ranges cut so far.                             *)

\* The list walked starts with the widest range, or empty, and grows by the
\* fragments pushed.
ExcludeFromLists == {<<>>, <<Range(0, MaxLoc)>>}

ExcludeLists == UNION {[1..n -> Ranges] : n \in 0..MaxExcl}

\* let mut from = from; let mut i = 0;
InitExclude ==
    /\ \E from \in ExcludeFromLists, excludes \in ExcludeLists :
          exl = [pc |-> "loop", from |-> from, excludes |-> excludes, i |-> 1,
                 cuts |-> 0, out |-> <<>>]
    /\ mrg = IdleMrg
    /\ rng = IdleRng
    /\ txt = IdleTxt
    /\ cfg = IdleCfg
    /\ loc = IdleLoc
    /\ pol = IdlePol
    /\ rcache = IdleRcache
    /\ SchedulerIdle

\* An iteration in which no exclusion shares a position with from[i]: i += 1.
ExcludeStepAdvance ==
    /\ exl.pc = "loop"
    /\ exl.i <= Len(exl.from)
    /\ FirstCommon(exl.from[exl.i], exl.excludes, 1) = 0
    /\ exl' = [exl EXCEPT !.i = exl.i + 1]
    /\ UNCHANGED <<schedVars, mrg, rng, txt, cfg, loc, pol, rcache>>

\* Variant of ExcludeStepSplit without from.remove(i).
ExcludeStepSplitKeepRange ==
    /\ exl.pc = "loop"
    /\ exl.i <= Len(exl.from)
    /\ LET j == FirstCommon(exl.from[exl.i], exl.excludes, 1) IN
          /\ j # 0
          /\ LET common == common_range(exl.from[exl.i], exl.excludes[j])[1] IN
                exl' = [exl EXCEPT !.from = exl.from \o Fragments(exl.from[exl.i], common),
                                   !.cuts = exl.cuts + 1]
    /\ UNCHANGED <<schedVars, mrg, rng, txt, cfg, loc, pol, rcache>>

\* An iteration in which the first exclusion that shares a position with
\* from[i] cuts it: the fragments are pushed, from[i] is removed and the
\* outer loop continues at the same i.
ExcludeStepSplit ==
    /\ exl.pc = "loop"
    /\ exl.i <= Len(exl.from)
    /\ LET j == FirstCommon(exl.from[exl.i], exl.excludes, 1) IN
          /\ j # 0
          /\ LET common == common_range(exl.from[exl.i], exl.excludes[j])[1] IN
                exl' = [exl EXCEPT !.from =
                           RemoveAt(exl.from \o Fragments(exl.from[exl.i], common), exl.i),
                                   !.cuts = exl.cuts + 1]
    /\ UNCHANGED <<schedVars, mrg, rng, txt, cfg, loc, pol, rcache>>

\* The loop ends when i reaches from.len(); eliminated_ranges(from) is returned.
ExcludeStepFinish ==
    /\ exl.pc = "loop"
    /\ exl.i > Len(exl.from)
    /\ exl' = [exl EXCEPT !.pc = "done", !.out = eliminated_ranges(exl.from)]
    /\ UNCHANGED <<schedVars, mrg, rng, txt, cfg, loc, pol, rcache>>

NextExclude == ExcludeStepAdvance \/ ExcludeStepSplit \/ ExcludeStepFinish

SpecExclude == InitExclude /\ [][NextExclude]_vars

\* The loop runs on one thread and nothing stops it: a step that can be taken
\* is taken.
FairSpecExclude == SpecExclude /\ WF_vars(NextExclude)

----------------------------------------------------------------------------
(* Properties *)

\* The function entries of a workspace, as (crate, file, position).
Entries(ws) ==
    UNION {UNION {{<<c, f, i>> : i \in 1..Len(ws[c][f])} : f \in DOMAIN ws[c]} :
              c \in DOMAIN ws}

NoDupItems(items) ==
    \A i, j \in 1..Len(items) : i # j => items[i].fn_id # items[j].fn_id

NoDupCrate(krate) == \A f \in DOMAIN krate : NoDupItems(krate[f])

NoDupWorkspace(ws) == \A c \in DOMAIN ws : NoDupCrate(ws[c])

AllJobsOk == \A b \in Bodies : jobState[b] # "err"

\* C1: once every body has been submitted and every completion drained, with
\* no job failed, the merge of all emitted workspaces holds exactly NBodies
\* function entries and no file of it holds one fn_id twice, in whatever
\* order the jobs completed.
C1_ExactlyNEntries ==
    (pc = "done" /\ AllJobsOk) =>
        /\ Cardinality(Entries(OutputModel)) = NBodies
        /\ NoDupWorkspace(OutputModel)

\* C1 witness: a finished run without failure in which a job submitted later
\* was emitted first and some file received several functions.
C1_Witness ==
    /\ pc = "done"
    /\ AllJobsOk
    /\ Cardinality(Entries(OutputModel)) = NBodies
    /\ emitted[1] # AnalyzedWorkspace(1)
    /\ spawned[1] = 1
    /\ \E f \in DOMAIN OutputModel[LocalCrate] : Len(OutputModel[LocalCrate][f]) >= 2

DrainExited == pc \in {"write_cache", "done"}

\* C2: when every spawned job eventually finishes, the drain loop of
\* after_expansion eventually exits, and once it has exited the task set is
\* empty, no job is still running, every job that finished successfully has
\* been handled exactly once and no failed job has been handled.
C2_FinalDrain ==
    /\ <>(pc = "done")
    /\ [](DrainExited =>
            /\ tasks = {}
            /\ \A b \in Bodies :
                  spawned[b] >= 1 =>
                     /\ jobState[b] \in {"ok", "err"}
                     /\ handled[b] = (IF jobState[b] = "ok" THEN 1 ELSE 0))

\* C2 witness: the loop has exited after a successful and a failed job.
C2_Witness ==
    /\ pc = "done"
    /\ tasks = {}
    /\ \E b \in Bodies : jobState[b] = "ok" /\ handled[b] = 1
    /\ \E b \in Bodies : jobState[b] = "err" /\ handled[b] = 0

\* mir_borrowck of body b is past its match on the init result.
Dispatched(b) == b < nextBody /\ ~(cur = b /\ pc = "mb_dispatch")

\* C3: a body whose init returned a cached result never gets a job (it is
\* never spawned, never in the task set, never running) and has been handled
\* once as soon as its mir_borrowck invocation is past the match; a body
\* whose init missed has exactly one job spawned by then.
C3_CacheHitShortcut ==
    \A b \in Bodies :
        /\ b \in hit =>
              /\ spawned[b] = 0
              /\ jobState[b] = "none"
              /\ b \notin tasks
              /\ Dispatched(b) => handled[b] = 1
        /\ (b \notin hit /\ Dispatched(b)) => spawned[b] = 1

\* C3 witness: inside the mir_borrowck invocation of a cache-hit body, its
\* result already handled, after an earlier body missed and was spawned.
C3_Witness ==
    /\ pc = "mb_poll"
    /\ cur \in hit
    /\ handled[cur] = 1
    /\ spawned[cur] = 0
    /\ \E b \in Bodies : b \notin hit /\ spawned[b] = 1

\* C4: a result obtained from a cache hit is never inserted into the cache
\* again, and a freshly analyzed result is inserted exactly once, when it is
\* handled.
C4_WriteBackOnlyFresh ==
    \A b \in Bodies :
        /\ b \in hit => inserts[b] = 0
        /\ (b \notin hit /\ cacheEnabled) => inserts[b] = handled[b] /\ inserts[b] <= 1

\* C5: a failed job that has been joined has been logged and is not handled,
\* and at the end of the run every successful job has been handled.
C5_JoinErrorLoggedAndIsolated ==
    \A b \in Bodies :
        /\ (jobState[b] = "err" /\ b \notin tasks) =>
              /\ "join_error" \in log[b]
              /\ handled[b] = 0
        /\ (pc = "done" /\ jobState[b] = "ok") => handled[b] = 1

\* Indices of the functions of other that Crate::merge is to append: those
\* whose fn_id is neither in self nor earlier in other.
KeptIdx(selfItems, otherItems) ==
    {i \in 1..Len(otherItems) :
        /\ \A k \in 1..Len(selfItems) : selfItems[k].fn_id # otherItems[i].fn_id
        /\ \A j \in 1..(i - 1) : otherItems[j].fn_id # otherItems[i].fn_id}

\* The elements of s at the indices of K from i on, in order.
RECURSIVE Pick(_, _, _)
Pick(s, K, i) ==
    IF i > Len(s) THEN <<>>
    ELSE (IF i \in K THEN <<s[i]>> ELSE <<>>) \o Pick(s, K, i + 1)

\* C6: after Crate::merge a file of self that other has too holds the
\* functions of self, unchanged and in order, followed by the functions of
\* other whose fn_id was not seen before, in other's order; a file only in
\* self is unchanged.
C6_FirstSeenKept ==
    mrg.pc = "crate_merged" =>
        \A f \in DOMAIN mrg.self :
            /\ f \in DOMAIN mrg.out
            /\ mrg.out[f] =
                  IF f \in DOMAIN mrg.other
                  THEN mrg.self[f] \o
                       Pick(mrg.other[f], KeptIdx(mrg.self[f], mrg.other[f]), 1)
                  ELSE mrg.self[f]

\* C6 witness: a merged file where self had a function and other brought the
\* same new fn_id twice, of which one was appended.
C6_Witness ==
    /\ mrg.pc = "crate_merged"
    /\ \E f \in (DOMAIN mrg.self) \cap (DOMAIN mrg.other) :
          /\ Len(mrg.self[f]) >= 1
          /\ Len(mrg.other[f]) = 2
          /\ mrg.other[f][1].fn_id = mrg.other[f][2].fn_id
          /\ Len(mrg.out[f]) = Len(mrg.self[f]) + 1

\* C7: when no file of self holds a fn_id twice, no file of the result of
\* Crate::merge or Workspace::merge does, whatever other holds.
C7_NoDuplicateAfterMerge ==
    /\ (mrg.pc = "crate_merged" /\ NoDupCrate(mrg.self)) => NoDupCrate(mrg.out)
    /\ (mrg.pc = "workspace_merged" /\ NoDupCrate(mrg.self)) => NoDupWorkspace(mrg.out)

\* The positions covered by a list of half-open ranges.
Positions(ranges) ==
    UNION {ranges[i].from..(ranges[i].until - 1) : i \in 1..Len(ranges)}

\* C8: the output of eliminated_ranges is sorted and each range ends strictly
\* before the next one starts.
C8_EliminatedDisjoint ==
    rng.pc = "once" =>
        \A i \in 1..(Len(rng.out1) - 1) : rng.out1[i].until < rng.out1[i + 1].from

\* C8 witness: an unsorted input with an adjacent pair that normalizes into
\* two ranges.
C8_Witness ==
    /\ rng.pc = "once"
    /\ Len(rng.xs) = 3
    /\ rng.xs[1].from > rng.xs[2].from
    /\ \E i, j \in 1..3 : rng.xs[i].until = rng.xs[j].from
    /\ Len(rng.out1) = 2

\* C9: applying eliminated_ranges to its own output changes nothing.
C9_EliminatedIdempotent ==
    rng.pc = "twice" => rng.out2 = rng.out1

\* C9 witness: a second application on an output of several ranges that
\* differs from the input.
C9_Witness ==
    /\ rng.pc = "twice"
    /\ Len(rng.out1) >= 2
    /\ rng.out1 # rng.xs
    /\ rng.out2 = rng.out1

C10_WitnessUnsorted ==
    /\ rng.pc = "once"
    /\ Len(rng.xs) = 3
    /\ rng.xs[1] = rng.xs[3]
    /\ rng.xs[2].from < rng.xs[1].from
    /\ Len(rng.out1) = 2

\* r covers s: every position of s lies in r.
Covers(r, s) == r.from <= s.from /\ s.until <= r.until

\* C11: no range returned by exclude_ranges has a common range with any
\* exclusion, also after the final normalization, and when every source
\* range is fully covered by some exclusion nothing is returned.
C11_ExcludedDisjoint ==
    rng.pc = "excluded" =>
        /\ \A i \in 1..Len(rng.out), j \in 1..Len(rng.excludes) :
              /\ common_range(rng.out[i], rng.excludes[j]) = NoneOpt
              /\ Positions(<<rng.out[i]>>) \cap Positions(<<rng.excludes[j]>>) = {}
        /\ (\A i \in 1..Len(rng.from) :
               \E j \in 1..Len(rng.excludes) : Covers(rng.excludes[j], rng.from[i]))
              => rng.out = <<>>

\* C11 witness: a source range cut by the second of two exclusions only, of
\* which a fragment is left.
C11_Witness ==
    /\ rng.pc = "excluded"
    /\ Len(rng.from) = 1
    /\ Len(rng.excludes) = 2
    /\ common_range(rng.from[1], rng.excludes[1]) = NoneOpt
    /\ common_range(rng.from[1], rng.excludes[2]) # NoneOpt
    /\ Len(rng.out) = 1
    /\ rng.out # rng.from

\* C11 witness of the split: a source range cut in two fragments.
C11_WitnessSplit ==
    /\ rng.pc = "excluded"
    /\ Len(rng.from) = 1
    /\ Len(rng.excludes) = 1
    /\ is_super_range(rng.from[1], rng.excludes[1])
    /\ Len(rng.out) = 2

\* C11 witness of the covered case: a source range inside an exclusion.
C11_WitnessCovered ==
    /\ rng.pc = "excluded"
    /\ Len(rng.from) = 2
    /\ Len(rng.excludes) = 1
    /\ Covers(rng.excludes[1], rng.from[1])
    /\ Covers(rng.excludes[1], rng.from[2])
    /\ rng.out = <<>>

\* C12: the result of exclude_ranges covers exactly the positions that lie in
\* some source range and in no exclusion, and cutting [5,15) out of [0,20)
\* gives [0,5) and [15,20).
C12_ExactSubtraction ==
    rng.pc = "excluded" =>
        /\ Positions(rng.out) = Positions(rng.from) \ Positions(rng.excludes)
        /\ (rng.from = <<Range(0, 20)>> /\ rng.excludes = <<Range(5, 15)>>)
              => rng.out = <<Range(0, 5), Range(15, 20)>>

\* C13: common_range is the range from the larger start to the smaller end
\* when that has positive width and None otherwise, ranges that only touch
\* have no common range, and the argument order does not matter.
C13_CommonRange ==
    rng.pc = "pair" =>
        LET lo == Max(rng.r1.from, rng.r2.from)
            hi == Min(rng.r1.until, rng.r2.until)
        IN  /\ hi > lo => rng.common = <<[from |-> lo, until |-> hi]>>
            /\ hi <= lo => rng.common = <<>>
            /\ rng.r1.until = rng.r2.from => rng.common = <<>>
            /\ rng.commonRev = rng.common

\* C13 witness: the second range starts first and overlaps the first partly.
C13_Witness ==
    /\ rng.pc = "pair"
    /\ rng.r2.from < rng.r1.from
    /\ rng.r1.from < rng.r2.until
    /\ rng.r2.until < rng.r1.until
    /\ rng.common = <<[from |-> rng.r1.from, until |-> rng.r2.until]>>

\* C13 witness of the touching case.
C13_WitnessTouching ==
    /\ rng.pc = "pair"
    /\ rng.r1.until = rng.r2.from
    /\ rng.common = <<>>
    /\ rng.commonRev = <<>>

C14_WitnessGap ==
    /\ rng.pc = "pair"
    /\ rng.r1.until < rng.r2.from
    /\ rng.merged = <<>>

\* C15: is_super_range(r1, r2) holds exactly when r1 starts no later and ends
\* no earlier than r2 and differs from it; it never holds in both directions
\* and never between equal ranges.
C15_IsSuperRange ==
    rng.pc = "pair" =>
        /\ rng.super <=> (/\ rng.r1.from <= rng.r2.from
                          /\ rng.r2.until <= rng.r1.until
                          /\ rng.r1 # rng.r2)
        /\ ~(rng.super /\ rng.superRev)
        /\ rng.r1 = rng.r2 => ~rng.super /\ ~rng.superRev

\* C15 witness: two ranges with the same start, the first one longer.
C15_Witness ==
    /\ rng.pc = "pair"
    /\ rng.r1.from = rng.r2.from
    /\ rng.r2.until < rng.r1.until
    /\ rng.super
    /\ ~rng.superRev

\* C15 witness of equal ranges.
C15_WitnessEqual ==
    /\ rng.pc = "pair"
    /\ rng.r1 = rng.r2
    /\ ~rng.super

\* Every range of the list has until > from.
AllValid(ranges) == \A i \in 1..Len(ranges) : ranges[i].until > ranges[i].from

C16_WitnessUnwrap ==
    /\ rng.pc = "once"
    /\ Len(rng.xs) = 2
    /\ rng.xs[1].until = rng.xs[2].from
    /\ rng.out1 = <<[from |-> rng.xs[1].from, until |-> rng.xs[2].until]>>
    /\ ~rng.panic

\* The positions that lie in two ranges at distinct indices of the list.
SharedPositions(ranges) ==
    {p \in Positions(ranges) :
        \E i, j \in 1..Len(ranges) :
            /\ i # j
            /\ p \in Positions(<<ranges[i]>>)
            /\ p \in Positions(<<ranges[j]>>)}

\* C20: common_ranges covers exactly the positions that lie in two ranges at
\* distinct indices, its result is sorted with each range ending strictly
\* before the next starts, and [0,10),[5,15),[12,20),[21,25) gives [5,10)
\* and [12,15).
C20_CommonRanges ==
    rng.pc = "common" =>
        /\ Positions(rng.out) = SharedPositions(rng.xs)
        /\ \A i \in 1..(Len(rng.out) - 1) : rng.out[i].until < rng.out[i + 1].from
        /\ rng.xs = CommonScenario => rng.out = <<Range(5, 10), Range(12, 15)>>

\* C20 witness: the documented scenario.
C20_Witness ==
    /\ rng.pc = "common"
    /\ rng.xs = CommonScenario
    /\ Len(rng.out) = 2

\* C20 witness of the general case: three ranges of which two pairs overlap
\* in parts that stay apart.
C20_WitnessGeneral ==
    /\ rng.pc = "common"
    /\ Len(rng.xs) = 3
    /\ Len(rng.out) = 2
    /\ rng.out[1] \notin {rng.xs[i] : i \in 1..3}

\* The number of characters of a text that are not carriage returns: its
\* bytes that neither are a carriage return nor continue a character.
LogicalLength(s) == Cardinality({i \in 1..Len(s) : s[i] \notin {"CR", "A9"}})

C17_WitnessEnd ==
    /\ txt.pc = "back"
    /\ txt.idx = LogicalLength(txt.s)
    /\ txt.idx >= 2
    /\ txt.back = txt.idx

C18_WitnessIndex ==
    /\ txt.pc = "index"
    /\ \E i \in 1..(Len(txt.s) - 1) : txt.s[i] = "CR" /\ txt.s[i + 1] = "LF"
    /\ txt.line = 1
    /\ txt.char = 1
    /\ txt.out >= 2
    /\ txt.out = txt.outNoCR

\* A string that is an unsigned integer: digits, after at most one "+", few
\* enough to fit.
IsUnsigned(str) ==
    LET digits == IF str # <<>> /\ Head(str) = "+" THEN Tail(str) ELSE str IN
    /\ digits # <<>>
    /\ Len(digits) <= 9
    /\ \A i \in 1..Len(digits) : digits[i] \in Digits

\* A variable that is unset or holds a string that is no unsigned integer.
NoNumber(var) == var = <<>> \/ ~IsUnsigned(var[1])

\* The strings that are the word in lower, upper or capitalized case, padded
\* or not.
Spellings(lower, upper) ==
    {a \o w \o b : a \in {<<>>, <<" ">>}, b \in {<<>>, <<"TAB">>},
                   w \in {lower, upper, <<upper[1]>> \o Tail(lower)}}

\* C19: a numeric override that is no unsigned integer, such as a number
\* padded with whitespace, leaves its field at the default (1000 entries,
\* 100 MiB), an eviction policy that is neither lru nor fifo after trimming
\* and lower-casing leaves LRU, a configuration is returned in every case,
\* and each variable changes only its own field.
C19_MalformedOverridesIgnored ==
    cfg.pc = "config" =>
        LET env == cfg.env
            out == cfg.out
            lru == Spellings(<<"l", "r", "u">>, <<"L", "R", "U">>)
            fifo == Spellings(<<"f", "i", "f", "o">>, <<"F", "I", "F", "O">>)
        IN  /\ NoNumber(env.RUSTOWL_CACHE_MAX_ENTRIES) => out.max_entries = 1000
            /\ NoNumber(env.RUSTOWL_CACHE_MAX_MEMORY_MB)
                  => out.max_memory_bytes = 104857600
            /\ (\A w \in lru \cup fifo : env.RUSTOWL_CACHE_EVICTION # <<w>>)
                  => out.use_lru_eviction
            /\ (\E w \in fifo : env.RUSTOWL_CACHE_EVICTION = <<w>>)
                  => ~out.use_lru_eviction
            /\ env.RUSTOWL_CACHE_MAX_ENTRIES = <<<<"+", "7">>>> => out.max_entries = 7
            /\ env.RUSTOWL_CACHE_MAX_MEMORY_MB = <<<<"7">>>>
                  => out.max_memory_bytes = 7340032
            /\ out.max_entries = cfg.alone.RUSTOWL_CACHE_MAX_ENTRIES.max_entries
            /\ out.max_memory_bytes
                  = cfg.alone.RUSTOWL_CACHE_MAX_MEMORY_MB.max_memory_bytes
            /\ out.use_lru_eviction = cfg.alone.RUSTOWL_CACHE_EVICTION.use_lru_eviction
            /\ out.validate_file_mtime
                  = cfg.alone.RUSTOWL_CACHE_VALIDATE_FILES.validate_file_mtime
            /\ \A n \in DOMAIN cfg.alone :
                  LET a == cfg.alone[n] IN
                  /\ n # "RUSTOWL_CACHE_MAX_ENTRIES" => a.max_entries = 1000
                  /\ n # "RUSTOWL_CACHE_MAX_MEMORY_MB" => a.max_memory_bytes = 104857600
                  /\ n # "RUSTOWL_CACHE_EVICTION" => a.use_lru_eviction
                  /\ n # "RUSTOWL_CACHE_VALIDATE_FILES" => a.validate_file_mtime
                  /\ ~a.enable_compression

\* C19 witness: a padded number of entries and a misspelt policy were ignored
\* while the memory limit next to them was taken.
C19_Witness ==
    /\ cfg.pc = "config"
    /\ cfg.env.RUSTOWL_CACHE_MAX_ENTRIES = <<<<" ", "7">>>>
    /\ cfg.env.RUSTOWL_CACHE_MAX_MEMORY_MB = <<<<"7">>>>
    /\ cfg.env.RUSTOWL_CACHE_EVICTION = <<<<" ", "l", "f", "u">>>>
    /\ cfg.out.max_entries = 1000
    /\ cfg.out.max_memory_bytes = 7340032
    /\ cfg.out.use_lru_eviction

\* C19 witness of the tests' strings: " 200 " and "  777 " were ignored.
C19_WitnessTests ==
    /\ cfg.pc = "config"
    /\ cfg.env.RUSTOWL_CACHE_MAX_ENTRIES = <<<<" ", " ", "7", "7", "7", " ">>>>
    /\ cfg.env.RUSTOWL_CACHE_MAX_MEMORY_MB = <<<<" ", "2", "0", "0", " ">>>>
    /\ cfg.out.max_entries = 1000
    /\ cfg.out.max_memory_bytes = 104857600

\* x clamped to the values of a Loc.
Clamp(x) == IF x < 0 THEN 0 ELSE IF x > LocTop THEN LocTop ELSE x

\* C21: for every Loc l and every i32 k, i32::MIN included, l + k is l.0 + k
\* clamped to [0, u32::MAX] and l - k is l.0 - k clamped to [0, u32::MAX],
\* and neither operation panics.
C21_LocSaturates ==
    /\ loc.pc = "added" =>
          ~loc.out.panic /\ loc.out.value = Clamp(loc.l + loc.rhs)
    /\ loc.pc = "subtracted" =>
          ~loc.out.panic /\ loc.out.value = Clamp(loc.l - loc.rhs)

\* C21 without the panic: whenever the operation returns, its value is the
\* clamped sum or difference.
C21_ValueWhenReturned ==
    /\ (loc.pc = "added" /\ ~loc.out.panic) => loc.out.value = Clamp(loc.l + loc.rhs)
    /\ (loc.pc = "subtracted" /\ ~loc.out.panic)
          => loc.out.value = Clamp(loc.l - loc.rhs)

\* The compiler thread holds TASKS and is blocked in join_next: no job of
\* the set has finished yet.
BlockedHoldingTasks ==
    /\ tasksLocked
    /\ pc = "drain_wait"
    /\ tasks # {}
    /\ Finished = {}

C24_FlushedOnceAtEnd ==
    /\ [](/\ flushed <= 1
          /\ (pc = "done" /\ cacheEnabled) => flushed = 1
          /\ flushed >= 1 =>
                /\ tasks = {}
                /\ \A b \in Bodies :
                      /\ spawned[b] >= 1 => jobState[b] \in {"ok", "err"}
                      /\ jobState[b] = "ok" => handled[b] = 1 /\ inserts[b] = 1)
    /\ [][flushed >= 1 => (handled' = handled /\ emitted' = emitted
                           /\ inserts' = inserts /\ flushed' = flushed)]_vars

\* C24 witness: the cache has been flushed after a job was joined in the
\* final drain and its result inserted.
C24_Witness ==
    /\ pc = "done"
    /\ flushed = 1
    /\ \E b \in Bodies :
          /\ jobState[b] = "ok"
          /\ b \notin hit
          /\ handled[b] = 1
          /\ inserts[b] = 1
    /\ \E b \in Bodies : jobState[b] = "err"

\* A range of the pair starts exactly one position after the other's until.
GapOfOne(r1, r2) == r2.from = r1.until + 1 \/ r1.from = r2.until + 1

C29_WitnessChain ==
    /\ rng.pc = "once"
    /\ rng.xs = ChainScenario
    /\ Len(rng.out1) = 3

\* The text after its first `line` newlines.
RECURSIVE SkipLines(_, _)
SkipLines(s, line) ==
    IF line = 0 \/ s = <<>> THEN s
    ELSE SkipLines(Tail(s), IF Head(s) = "LF" THEN line - 1 ELSE line)

\* The text up to its first newline.
RECURSIVE FirstLine(_)
FirstLine(s) ==
    IF s = <<>> \/ Head(s) = "LF" THEN <<>>
    ELSE <<Head(s)>> \o FirstLine(Tail(s))

NewlineCount(s) == Cardinality({i \in 1..Len(s) : s[i] = "LF"})

\* C30: line_char_to_index clamps to the end of the text: with a line beyond
\* the last line, or a column beyond the end of the requested line, it
\* returns the total number of characters of the text.
C30_ClampsToEndOfText ==
    (txt.pc = "index" =>
        LET beyondLastLine == txt.line > NewlineCount(txt.s)
            beyondLineEnd ==
                /\ txt.line <= NewlineCount(txt.s)
                /\ txt.char > LogicalLength(FirstLine(SkipLines(txt.s, txt.line)))
        IN  (beyondLastLine \/ beyondLineEnd) => txt.out = LogicalLength(txt.s))

\* A line beyond the last line gives the total number of characters, and a
\* column beyond the end of the requested line gives the index of the end of
\* that line.
C30_ClampsToEndOfLine ==
    txt.pc = "index" =>
        LET before == LogicalLength(txt.s) - LogicalLength(SkipLines(txt.s, txt.line))
            width == LogicalLength(FirstLine(SkipLines(txt.s, txt.line)))
        IN  /\ txt.line > NewlineCount(txt.s) => txt.out = LogicalLength(txt.s)
            /\ (txt.line <= NewlineCount(txt.s) /\ txt.char > width) =>
                  txt.out = before + width

Width(r) == r.until - r.from

\* The work left to the loop of exclude_ranges: every range from index i on
\* weighs 3 to the power of its width, so that a range weighs more than two
\* strictly shorter ranges together.
RECURSIVE Weight(_, _)
Weight(from, i) ==
    IF i > Len(from) THEN 0
    ELSE 3 ^ Width(from[i]) + Weight(from, i + 1)

\* A step of the loop advanced to the next range.
Advanced == exl'.i = exl.i + 1 /\ exl'.from = exl.from

\* A step of the loop replaced from[i] by at most two strictly shorter ranges
\* appended to the list.
Replaced ==
    /\ exl'.i = exl.i
    /\ exl.i <= Len(exl.from)
    /\ \E n \in 0..2 :
          /\ Len(exl'.from) = Len(exl.from) - 1 + n
          /\ SubSeq(exl'.from, 1, Len(exl.from) - 1) = RemoveAt(exl.from, exl.i)
          /\ \A k \in Len(exl.from)..Len(exl'.from) :
                Width(exl'.from[k]) < Width(exl.from[exl.i])

\* C28: exclude_ranges terminates for every finite from and excludes: each
\* step of its loop either advances to the next range or replaces the range
\* at i by at most two strictly shorter ranges, which strictly decreases the
\* work left, and the loop ends.
C28_ExcludeTerminates ==
    /\ [][(exl.pc = "loop" /\ exl'.pc = "loop") =>
             /\ Advanced \/ Replaced
             /\ Weight(exl'.from, exl'.i) < Weight(exl.from, exl.i)]_vars
    /\ [][exl.pc = "done" => exl'.pc = "done"]_vars
    /\ <>(exl.pc = "done")

\* C28 witness: the loop ended after it cut a range in two fragments, so
\* that the list it walked grew while it was walked.
C28_Witness ==
    /\ exl.pc = "done"
    /\ Len(exl.from) = 2
    /\ Len(exl.excludes) = 1
    /\ exl.out = exl.from

\* C28 witness of a fragment cut again by another exclusion.
C28_WitnessCutAgain ==
    /\ exl.pc = "done"
    /\ Len(exl.excludes) = 2
    /\ exl.cuts >= 2

\* sup is recorded as a superset of sub at some point.
SubsetFact(facts, sup, sub) ==
    \E p \in DOMAIN facts.subset :
        sup \in DOMAIN facts.subset[p] /\ sub \in facts.subset[p][sup]

\* sub is reached from sup in at most n subset steps, and at least one.
RECURSIVE SubsetChain(_, _, _, _)
SubsetChain(facts, sup, sub, n) ==
    IF n = 0 THEN FALSE
    ELSE \/ SubsetFact(facts, sup, sub)
         \/ \E mid \in Regions :
               SubsetFact(facts, sup, mid) /\ SubsetChain(facts, mid, sub, n - 1)

\* The region that contains the loan, and whether the local owns the loan.
LoanRegion == (CHOOSE f \in pol.facts.origin_contains_loan_at : TRUE).region
LoanOwned == TheBorrow \in pol.facts.local_map[TheLocal]

\* C27: get_must_live uses the transitive closure of the subset relation:
\* for every set of subset facts, the local that owns a loan contained in
\* region R is attributed every location live in a region reached from R by
\* one or more subset steps.
C27_TransitiveSubsetClosure ==
    (pol.pc = "must_live" /\ LoanOwned) =>
        \A t \in Regions :
            SubsetChain(pol.facts, LoanRegion, t, NRegions) =>
                {l \in Locations : t \in pol.facts.origin_live_on_entry[l]}
                    \subseteq pol.out[TheLocal]

\* What get_must_live attributes: exactly the locations live in the regions
\* recorded, at some point, as direct subsets of the region of the loan.
C27_DirectSubsetsOnly ==
    (pol.pc = "must_live" /\ LoanOwned) =>
        pol.out[TheLocal] =
            {l \in Locations :
                \E t \in Regions :
                    /\ SubsetFact(pol.facts, LoanRegion, t)
                    /\ t \in pol.facts.origin_live_on_entry[l]}

\* The positions in the list of rich locations that hold a location of the
\* kind.
KindIndices(rich, kind) == {i \in 1..Len(rich) : rich[i].kind = kind}

\* The rank of position i among the positions idx: the number of positions
\* whose location comes before it by (block, statement index), ties broken by
\* position, plus one.
Rank(rich, idx, i) ==
    1 + Cardinality({j \in idx :
          \/ rich[j].block < rich[i].block
          \/ rich[j].block = rich[i].block
             /\ rich[j].statement_index < rich[i].statement_index
          \/ rich[j].block = rich[i].block
             /\ rich[j].statement_index = rich[i].statement_index
             /\ j < i})

\* The position of the given rank.
AtRank(rich, idx, k) == CHOOSE i \in idx : Rank(rich, idx, i) = k

\* The code range of a rich location, if it has one: the statement's range
\* inside the statement list, else the terminator's.
CodeRange(basic_blocks, l) ==
    IF l.block + 1 > Len(basic_blocks) THEN <<>>
    ELSE IF l.statement_index + 1 <= Len(basic_blocks[l.block + 1].statements)
         THEN <<basic_blocks[l.block + 1].statements[l.statement_index + 1]>>
         ELSE basic_blocks[l.block + 1].terminator

\* The ranges of the pairs of equal rank, in rank order, without the pairs
\* that have no code range or no positive width.
RECURSIVE RankPairs(_, _, _, _)
RankPairs(rich, basic_blocks, k, n) ==
    IF k > n THEN <<>>
    ELSE LET s == CodeRange(basic_blocks, rich[AtRank(rich, KindIndices(rich, "Start"), k)])
             m == CodeRange(basic_blocks, rich[AtRank(rich, KindIndices(rich, "Mid"), k)])
             rest == RankPairs(rich, basic_blocks, k + 1, n)
         IN  IF s # <<>> /\ m # <<>> /\ m[1].until > s[1].from
             THEN <<[from |-> s[1].from, until |-> m[1].until]>> \o rest
             ELSE rest

\* C25: get_range pairs by rank: the i-th start by (block, statement index)
\* is paired with the i-th mid for every i up to the smaller of the two
\* counts, the surplus is dropped without error, each pair gives the range
\* from the start's code range beginning to the mid's code range end, pairs
\* of non-positive width are dropped, and the list returned is
\* eliminated_ranges of those ranges.
C25_PairsByRank ==
    pol.pc = "ranges" =>
        LET ns == Cardinality(KindIndices(pol.rich, "Start"))
            nm == Cardinality(KindIndices(pol.rich, "Mid"))
            n == IF ns <= nm THEN ns ELSE nm
        IN  /\ pol.out.n = n
            /\ pol.out.truncated = (ns # nm)
            /\ ~pol.out.panic
            /\ pol.out.ranges = eliminated_ranges(RankPairs(pol.rich, pol.basic_blocks, 1, n))

\* C25 witness: the input of get_range_truncates_when_counts_mismatch, two
\* starts and one mid, gives the one range [0,25).
C25_Witness ==
    /\ pol.pc = "ranges"
    /\ pol.basic_blocks = TruncateBody
    /\ pol.rich = <<[kind |-> "Start", block |-> 0, statement_index |-> 0],
                    [kind |-> "Start", block |-> 0, statement_index |-> 1],
                    [kind |-> "Mid", block |-> 0, statement_index |-> 2]>>
    /\ pol.out.truncated
    /\ pol.out.ranges = <<Range(0, 25)>>

\* C25 witness of a pair of non-positive width: the start lies after the mid
\* and nothing is returned.
C25_WitnessDropped ==
    /\ pol.pc = "ranges"
    /\ pol.out.n = 1
    /\ pol.basic_blocks = TerminatorBody
    /\ pol.rich = <<[kind |-> "Start", block |-> 0, statement_index |-> 1],
                    [kind |-> "Mid", block |-> 0, statement_index |-> 0]>>
    /\ pol.out.ranges = <<>>

\* A pair of equal rank has a location without code range.
UnresolvedPair(k) ==
    \/ CodeRange(pol.basic_blocks, pol.out.starts[k]) = <<>>
    \/ CodeRange(pol.basic_blocks, pol.out.mids[k]) = <<>>

\* C26: resolving a (block, statement index) never fails hard: an index
\* inside the statement list gives the statement's range, an index at or
\* beyond it the terminator's range, a block outside the list or a block
\* without terminator nothing; a pair with such a location contributes no
\* range and get_range still returns.
C26_ResolveNeverFails ==
    pol.pc = "ranges" =>
        /\ \A block \in 0..Len(pol.basic_blocks), i \in 0..(MaxStmt + 1) :
              LET r == statement_location_to_range(pol.basic_blocks, block, i) IN
              IF block >= Len(pol.basic_blocks) THEN r = <<>>
              ELSE LET bb == pol.basic_blocks[block + 1] IN
                   /\ i < Len(bb.statements) => r = <<bb.statements[i + 1]>>
                   /\ (i >= Len(bb.statements) /\ bb.terminator # <<>>) => r = bb.terminator
                   /\ (i >= Len(bb.statements) /\ bb.terminator = <<>>) => r = <<>>
        /\ ~pol.out.panic
        /\ (\A k \in 1..pol.out.n : UnresolvedPair(k)) => pol.out.ranges = <<>>
        /\ \A r \in {pol.out.ranges[k] : k \in 1..Len(pol.out.ranges)} :
              \E k \in 1..pol.out.n :
                  /\ ~UnresolvedPair(k)
                  /\ CodeRange(pol.basic_blocks, pol.out.starts[k])[1].from <= r.from

\* C26 witness: the input of
\* get_range_uses_terminator_when_statement_index_at_end; the mid beyond the
\* statements takes the terminator's range.
C26_Witness ==
    /\ pol.pc = "ranges"
    /\ pol.basic_blocks = TerminatorBody
    /\ pol.rich = <<[kind |-> "Start", block |-> 0, statement_index |-> 1],
                    [kind |-> "Mid", block |-> 0, statement_index |-> MaxStmt]>>
    /\ pol.out.ranges = <<Range(3, 9)>>

\* C26 witness of a location without code range: the block is outside the
\* list, and the pair gives no range.
C26_WitnessNothing ==
    /\ pol.pc = "ranges"
    /\ pol.basic_blocks = NoTerminatorBody
    /\ pol.out.n = 1
    /\ pol.out.starts[1].block = 0
    /\ pol.out.starts[1].statement_index = 0
    /\ pol.out.mids[1].block = 1
    /\ pol.out.ranges = <<>>

\* The operations of the log, up to the last but one, that count for the
\* order of eviction of a key: its inserts and lookups under LRU, its inserts
\* under FIFO.
Touches(key) ==
    {i \in 1..(Len(rcache.log) - 1) :
        /\ rcache.log[i].key = key
        /\ rcache.config.use_lru_eviction \/ rcache.log[i].op = "insert"}

\* The last of them.
LastTouch(key) == CHOOSE i \in Touches(key) : \A j \in Touches(key) : j <= i

\* C22: when an insert pushes the cache above max_entries, entries are
\* evicted until the count is within the limit again, and the entry evicted
\* first is the least recently accessed one under LRU and the earliest
\* inserted one under FIFO, whatever was looked up in between.
C22_EvictionOrder ==
    rcache.pc = "inserted" =>
        LET over == Cardinality(rcache.stored) - rcache.config.max_entries
            key == rcache.log[Len(rcache.log)].key
        IN  /\ Cardinality(DOMAIN rcache.entries) <= rcache.config.max_entries
            /\ over <= 0 => rcache.evicted = <<>>
            /\ over > 0 =>
                  /\ Len(rcache.evicted) = over
                  /\ DOMAIN rcache.entries =
                        rcache.stored \ {rcache.evicted[i] : i \in 1..over}
                  /\ rcache.evicted[1] \in rcache.stored \ {key}
                  /\ \A o \in rcache.stored \ {key} :
                        LastTouch(rcache.evicted[1]) <= LastTouch(o)

\* C22 witness: under LRU an entry inserted first and looked up since is
\* kept, and the entry inserted after it is evicted.
C22_Witness ==
    /\ rcache.pc = "inserted"
    /\ rcache.config.use_lru_eviction
    /\ rcache.config.max_entries = 2
    /\ rcache.log = <<[op |-> "insert", key |-> 1], [op |-> "insert", key |-> 2],
                      [op |-> "lookup", key |-> 1], [op |-> "insert", key |-> 3]>>
    /\ rcache.evicted = <<2>>

\* C22 witness under FIFO: the same operations evict the entry inserted
\* first, although it was looked up.
C22_WitnessFifo ==
    /\ rcache.pc = "inserted"
    /\ ~rcache.config.use_lru_eviction
    /\ rcache.config.max_entries = 2
    /\ rcache.log = <<[op |-> "insert", key |-> 1], [op |-> "insert", key |-> 2],
                      [op |-> "lookup", key |-> 1], [op |-> "insert", key |-> 3]>>
    /\ rcache.evicted = <<1>>

====
